---- MODULE Spec2Model ----
(***************************************************************************)
(* Model of the profile lookup route (src/app/api/profiles/route.ts, kept  *)
(* in src/src/app/page.tsx lines 299-459): the GET handler with its        *)
(* in-memory cache, per-client fixed-window rate limiter, credit counter   *)
(* and response normalisation.                                             *)
(*                                                                         *)
(* Text is modelled as a sequence of one-character strings, so that        *)
(* trim(), the /^\d+$/ test and String(number) are computed, not assumed.  *)
(* JavaScript values are records [t, n, s]: t is the type tag, n the       *)
(* number (t = "num"), s the text (t = "str").                             *)
(*                                                                         *)
(* JavaScript runs one handler at a time until it awaits: GET awaits only  *)
(* the upstream fetch (and its body), so a lookup is two atomic steps,     *)
(* GetStart (up to the fetch) and GetFinish (from the upstream's answer).  *)
(* The calls of Date.now() within one such step read the same value: the   *)
(* clock advances between steps (Tick).                                    *)
(***************************************************************************)
EXTENDS Integers, Sequences, FiniteSets, TLC

\* ------------------------------------------------------------------------
\* Bounds of the model
\* ------------------------------------------------------------------------

\* Date.now() ranges over 0..MaxTime.
MaxTime == 4

\* Upstream calls issued in one run (bounds creditsUsed as well).
MaxUpstream == 3

\* A client key is served while its count is below MaxCount.
MaxCount == 4

\* The three tunables of the route, scaled down from the values of
\* page.tsx lines 304-306 (5 * 60 * 1000 ms, 60 * 60 * 1000 ms, 300) so that
\* expiry, window reset and window exhaustion happen within MaxTime.
CACHE_TTL_MS == 2

\* The time a toast is shown, 2500 ms in the page, scaled down
TOAST_MS == 2

RATE_LIMIT_WINDOW_MS == 3

RATE_LIMIT_MAX_PER_WINDOW == 2

\* Concurrent lookups (handler activations).
Procs == {1, 2}

\* ------------------------------------------------------------------------
\* Text
\* ------------------------------------------------------------------------

DigitChars == <<"0", "1", "2", "3", "4", "5", "6", "7", "8", "9">>

IsDigit(c) == \E i \in 1..10 : DigitChars[i] = c

IsSpace(c) == c = " "

\* String.prototype.trim
RECURSIVE TrimLeft(_)
TrimLeft(s) ==
    IF s # <<>> /\ IsSpace(Head(s)) THEN TrimLeft(Tail(s)) ELSE s

RECURSIVE TrimRight(_)
TrimRight(s) ==
    IF s # <<>> /\ IsSpace(s[Len(s)])
    THEN TrimRight(SubSeq(s, 1, Len(s) - 1))
    ELSE s

Trim(s) == TrimRight(TrimLeft(s))

\* The test without its end anchor, /^\d+/
AllDigitsUnanchored(s) == s # <<>> /\ IsDigit(s[1])

\* /^\d+$/.test(s)
AllDigits(s) == s # <<>> /\ \A i \in 1..Len(s) : IsDigit(s[i])

\* s.includes(",")
HasComma(s) == \E i \in 1..Len(s) : s[i] = ","

\* String(n) for a non-negative integer n
RECURSIVE Decimal(_)
Decimal(n) ==
    IF n < 10 THEN <<DigitChars[n + 1]>>
    ELSE Decimal(n \div 10) \o <<DigitChars[(n % 10) + 1]>>

\* ------------------------------------------------------------------------
\* JavaScript values
\* ------------------------------------------------------------------------

Undef == [t |-> "undef", n |-> 0, s |-> <<>>]

Null == [t |-> "null", n |-> 0, s |-> <<>>]

Num(n) == [t |-> "num", n |-> n, s |-> <<>>]

Str(s) == [t |-> "str", n |-> 0, s |-> s]

\* An object-valued property (its own properties are flattened, see RecKeys)
Obj == [t |-> "obj", n |-> 0, s |-> <<>>]

\* a ?? b
Nullish(v) == v.t \in {"undef", "null"}

Coalesce(a, b) == IF Nullish(a) THEN b ELSE a

\* String(v)
JsString(v) ==
    CASE v.t = "num" -> Decimal(v.n)
      [] v.t = "str" -> v.s
      [] v.t = "null" -> <<"n", "u", "l", "l">>
      [] v.t = "undef" -> <<"u", "n", "d", "e", "f", "i", "n", "e", "d">>
      [] OTHER -> <<"[", "o", "b", "j", "e", "c", "t", "]">>

\* ------------------------------------------------------------------------
\* Raw user records of the upstream (untyped key-value bags)
\* ------------------------------------------------------------------------

\* The properties normalizeUser reads. A nested property is named by its
\* path (a__b for a.b); it is read only through ReadIn, which looks at the parent first.
RecKeys ==
    {"fid", "id", "displayName", "display_name", "name", "username", "handle",
     "pfp_url", "avatar_url", "bio", "follower_count", "followersCount",
     "profile", "profile__pfp_url", "profile__bio", "profile__bio__text",
     "raw", "raw__profile", "raw__profile__pfp_url", "raw__profile__bio",
     "raw__profile__bio__text", "raw__profile__follower_count"}

\* An element of the upstream's list: an object whose properties are the
\* fields of the record o (a missing property reads undefined), JSON null,
\* or a JSON primitive (the number 0), whose properties all read undefined.
ObjItem(o) == [t |-> "obj", f |-> o]

NullItem == [t |-> "null", f |-> [k \in {} |-> Undef]]

PrimItem == [t |-> "prim", f |-> [k \in {} |-> Undef]]

\* if (cached): an object is truthy; null and 0 are not
Truthy(item) == item.t = "obj"

\* u.k
Read(u, k) == IF k \in DOMAIN u.f THEN u.f[k] ELSE Undef

\* parent?.k, where parent is a value read from u and child the path of k
ReadIn(u, parent, child) ==
    IF Nullish(parent) THEN Undef
    ELSE IF parent.t = "obj" THEN Read(u, child)
    ELSE Undef

\* ------------------------------------------------------------------------
\* normalizeUser (page.tsx 329-345)
\* ------------------------------------------------------------------------

\* normalizeUser without the display_name spelling
normalizeUserCamelName(u) ==
    LET profile == Read(u, "profile")
        rawProfile == ReadIn(u, Read(u, "raw"), "raw__profile")
    IN  [fid |-> JsString(Coalesce(Read(u, "fid"), Coalesce(Read(u, "id"), Str(<<>>)))),
         displayName |->
             Coalesce(Read(u, "displayName"),
             Coalesce(Read(u, "name"), Null)),
         username |->
             Coalesce(Read(u, "username"), Coalesce(Read(u, "handle"), Null)),
         avatarUrl |->
             Coalesce(Read(u, "pfp_url"),
             Coalesce(Read(u, "avatar_url"),
             Coalesce(ReadIn(u, profile, "profile__pfp_url"),
             Coalesce(ReadIn(u, rawProfile, "raw__profile__pfp_url"), Null)))),
         bio |->
             Coalesce(Read(u, "bio"),
             Coalesce(ReadIn(u, ReadIn(u, profile, "profile__bio"), "profile__bio__text"),
             Coalesce(ReadIn(u, ReadIn(u, rawProfile, "raw__profile__bio"),
                             "raw__profile__bio__text"), Null))),
         followerCount |->
             Coalesce(Read(u, "follower_count"),
             Coalesce(Read(u, "followersCount"),
             Coalesce(ReadIn(u, rawProfile, "raw__profile__follower_count"), Null))),
         raw |-> u]

\* normalizeUser reading followersCount before follower_count
normalizeUserCamelFirst(u) ==
    LET profile == Read(u, "profile")
        rawProfile == ReadIn(u, Read(u, "raw"), "raw__profile")
    IN  [fid |-> JsString(Coalesce(Read(u, "fid"), Coalesce(Read(u, "id"), Str(<<>>)))),
         displayName |->
             Coalesce(Read(u, "displayName"),
             Coalesce(Read(u, "display_name"),
             Coalesce(Read(u, "name"), Null))),
         username |->
             Coalesce(Read(u, "username"), Coalesce(Read(u, "handle"), Null)),
         avatarUrl |->
             Coalesce(Read(u, "pfp_url"),
             Coalesce(Read(u, "avatar_url"),
             Coalesce(ReadIn(u, profile, "profile__pfp_url"),
             Coalesce(ReadIn(u, rawProfile, "raw__profile__pfp_url"), Null)))),
         bio |->
             Coalesce(Read(u, "bio"),
             Coalesce(ReadIn(u, ReadIn(u, profile, "profile__bio"), "profile__bio__text"),
             Coalesce(ReadIn(u, ReadIn(u, rawProfile, "raw__profile__bio"),
                             "raw__profile__bio__text"), Null))),
         followerCount |->
             Coalesce(Read(u, "followersCount"),
             Coalesce(Read(u, "follower_count"),
             Coalesce(ReadIn(u, rawProfile, "raw__profile__follower_count"), Null))),
         raw |-> u]

normalizeUser(u) ==
    LET profile == Read(u, "profile")
        rawProfile == ReadIn(u, Read(u, "raw"), "raw__profile")
    IN  [fid |-> JsString(Coalesce(Read(u, "fid"), Coalesce(Read(u, "id"), Str(<<>>)))),
         displayName |->
             Coalesce(Read(u, "displayName"),
             Coalesce(Read(u, "display_name"),
             Coalesce(Read(u, "name"), Null))),
         username |->
             Coalesce(Read(u, "username"), Coalesce(Read(u, "handle"), Null)),
         avatarUrl |->
             Coalesce(Read(u, "pfp_url"),
             Coalesce(Read(u, "avatar_url"),
             Coalesce(ReadIn(u, profile, "profile__pfp_url"),
             Coalesce(ReadIn(u, rawProfile, "raw__profile__pfp_url"), Null)))),
         bio |->
             Coalesce(Read(u, "bio"),
             Coalesce(ReadIn(u, ReadIn(u, profile, "profile__bio"), "profile__bio__text"),
             Coalesce(ReadIn(u, ReadIn(u, rawProfile, "raw__profile__bio"),
                             "raw__profile__bio__text"), Null))),
         followerCount |->
             Coalesce(Read(u, "follower_count"),
             Coalesce(Read(u, "followersCount"),
             Coalesce(ReadIn(u, rawProfile, "raw__profile__follower_count"), Null))),
         raw |-> u]

\* normalizeUser reading u.profile.pfp_url and u.raw.profile without ?.
normalizeUserThrowsUnguarded(u) ==
    u.t = "null" \/ Nullish(Read(u, "profile")) \/ Nullish(Read(u, "raw"))

\* Whether normalizeUser(u) raises a TypeError: u.fid does when u is null;
\* every read below a property of u is by ?., which does not.
normalizeUserThrows(u) == u.t = "null"

\* ------------------------------------------------------------------------
\* Cache (page.tsx 308-327): a Map from fid text to {value, expiresAt}
\* ------------------------------------------------------------------------

EmptyMap == [k \in {} |-> 0]

MapSet(m, k, v) == [x \in (DOMAIN m) \cup {k} |-> IF x = k THEN v ELSE m[x]]

MapDelete(m, k) == [x \in (DOMAIN m) \ {k} |-> m[x]]

\* getFromCache keeping an entry one millisecond too long
getFromCacheLate(c, fid, t) ==
    IF fid \notin DOMAIN c THEN [value |-> NullItem, cache |-> c]
    ELSE IF t > c[fid].expiresAt + 1
         THEN [value |-> NullItem, cache |-> MapDelete(c, fid)]
         ELSE [value |-> c[fid].value, cache |-> c]

\* getFromCache emptying the whole cache when it meets an expired entry
getFromCacheClear(c, fid, t) ==
    IF fid \notin DOMAIN c THEN [value |-> NullItem, cache |-> c]
    ELSE IF t > c[fid].expiresAt
         THEN [value |-> NullItem, cache |-> EmptyMap]
         ELSE [value |-> c[fid].value, cache |-> c]

\* getFromCache taking an entry for expired already at its expiresAt
getFromCacheEager(c, fid, t) ==
    IF fid \notin DOMAIN c THEN [value |-> NullItem, cache |-> c]
    ELSE IF t >= c[fid].expiresAt
         THEN [value |-> NullItem, cache |-> MapDelete(c, fid)]
         ELSE [value |-> c[fid].value, cache |-> c]

\* getFromCache(fid) at Date.now() = t: the returned value (NullItem for
\* null) and the cache it leaves.
getFromCache(c, fid, t) ==
    IF fid \notin DOMAIN c THEN [value |-> NullItem, cache |-> c]
    ELSE IF t > c[fid].expiresAt
         THEN [value |-> NullItem, cache |-> MapDelete(c, fid)]
         ELSE [value |-> c[fid].value, cache |-> c]

\* setCache keeping an entry that is already there
setCacheKeep(c, fid, value, t) ==
    IF fid \in DOMAIN c THEN c
    ELSE MapSet(c, fid, [value |-> value, expiresAt |-> t + CACHE_TTL_MS])

\* setCache(fid, value) at Date.now() = t
setCache(c, fid, value, t) ==
    MapSet(c, fid, [value |-> value, expiresAt |-> t + CACHE_TTL_MS])

\* ------------------------------------------------------------------------
\* Rate limiter (page.tsx 311-312, 356-372)
\* ------------------------------------------------------------------------

\* isRateLimited rejecting from the count RATE_LIMIT_MAX_PER_WINDOW on
isRateLimitedEarly(rm, ip, t) ==
    IF ip \notin DOMAIN rm
    THEN [limited |-> FALSE,
          rateMap |-> MapSet(rm, ip, [count |-> 1, windowStart |-> t])]
    ELSE IF t - rm[ip].windowStart > RATE_LIMIT_WINDOW_MS
    THEN [limited |-> FALSE,
          rateMap |-> MapSet(rm, ip, [count |-> 1, windowStart |-> t])]
    ELSE [limited |-> rm[ip].count + 1 >= RATE_LIMIT_MAX_PER_WINDOW,
          rateMap |-> MapSet(rm, ip, [count |-> rm[ip].count + 1,
                                      windowStart |-> rm[ip].windowStart])]

\* isRateLimited resetting the window already when now - windowStart equals
\* RATE_LIMIT_WINDOW_MS
isRateLimitedShortWindow(rm, ip, t) ==
    IF ip \notin DOMAIN rm
    THEN [limited |-> FALSE,
          rateMap |-> MapSet(rm, ip, [count |-> 1, windowStart |-> t])]
    ELSE IF t - rm[ip].windowStart >= RATE_LIMIT_WINDOW_MS
    THEN [limited |-> FALSE,
          rateMap |-> MapSet(rm, ip, [count |-> 1, windowStart |-> t])]
    ELSE [limited |-> rm[ip].count + 1 > RATE_LIMIT_MAX_PER_WINDOW,
          rateMap |-> MapSet(rm, ip, [count |-> rm[ip].count + 1,
                                      windowStart |-> rm[ip].windowStart])]

\* isRateLimited leaving the count alone when it rejects
isRateLimitedSilent(rm, ip, t) ==
    IF ip \notin DOMAIN rm
    THEN [limited |-> FALSE,
          rateMap |-> MapSet(rm, ip, [count |-> 1, windowStart |-> t])]
    ELSE IF t - rm[ip].windowStart > RATE_LIMIT_WINDOW_MS
    THEN [limited |-> FALSE,
          rateMap |-> MapSet(rm, ip, [count |-> 1, windowStart |-> t])]
    ELSE IF rm[ip].count + 1 > RATE_LIMIT_MAX_PER_WINDOW
    THEN [limited |-> TRUE, rateMap |-> rm]
    ELSE [limited |-> FALSE,
          rateMap |-> MapSet(rm, ip, [count |-> rm[ip].count + 1,
                                      windowStart |-> rm[ip].windowStart])]

\* isRateLimited emptying the rateMap when it restarts a window
isRateLimitedClear(rm, ip, t) ==
    IF ip \notin DOMAIN rm
    THEN [limited |-> FALSE,
          rateMap |-> MapSet(rm, ip, [count |-> 1, windowStart |-> t])]
    ELSE IF t - rm[ip].windowStart > RATE_LIMIT_WINDOW_MS
    THEN [limited |-> FALSE,
          rateMap |-> MapSet(EmptyMap, ip, [count |-> 1, windowStart |-> t])]
    ELSE [limited |-> rm[ip].count + 1 > RATE_LIMIT_MAX_PER_WINDOW,
          rateMap |-> MapSet(rm, ip, [count |-> rm[ip].count + 1,
                                      windowStart |-> rm[ip].windowStart])]

\* isRateLimited(ip) at Date.now() = t: the result and the rateMap it leaves
isRateLimited(rm, ip, t) ==
    IF ip \notin DOMAIN rm
    THEN [limited |-> FALSE,
          rateMap |-> MapSet(rm, ip, [count |-> 1, windowStart |-> t])]
    ELSE IF t - rm[ip].windowStart > RATE_LIMIT_WINDOW_MS
    THEN [limited |-> FALSE,
          rateMap |-> MapSet(rm, ip, [count |-> 1, windowStart |-> t])]
    ELSE [limited |-> rm[ip].count + 1 > RATE_LIMIT_MAX_PER_WINDOW,
          rateMap |-> MapSet(rm, ip, [count |-> rm[ip].count + 1,
                                      windowStart |-> rm[ip].windowStart])]

\* ------------------------------------------------------------------------
\* getClientIp (page.tsx 347-355). A request's headers are
\* [fwd, realip, host]: fwd is the x-forwarded-for list already split at
\* the commas and trimmed (<<>> when the header is missing or empty), realip
\* and host are a text or "" when the header is missing.
\* ------------------------------------------------------------------------

getClientIp(h) ==
    IF h.fwd # <<>> THEN h.fwd[1]
    ELSE IF h.realip # "" THEN h.realip
    ELSE IF h.host # "" THEN h.host
    ELSE "local"

\* ------------------------------------------------------------------------
\* Responses of GET (NextResponse.json(body, {status, headers}))
\* ------------------------------------------------------------------------

\* error: the body's error text ("" on success); about: the upstream status
\* the error text quotes (0 when none); details: what the body's details
\* hold ("none", "limit", "text" for the upstream's raw body, "err" for
\* String(err)); xcache: the X-Cache header; profile: <<>> or <<p>>;
\* fallback: the fallback link's path after the host, <<>> when absent.
Failure(status, error, about, details) ==
    [status |-> status, error |-> error, about |-> about, details |-> details,
     xcache |-> "", profile |-> <<>>, fallback |-> <<>>]

Success(profile, xcache) ==
    [status |-> 200, error |-> "", about |-> 0, details |-> "none",
     xcache |-> xcache, profile |-> <<profile>>, fallback |-> <<>>]

NoResp == Failure(0, "", 0, "none")

\* ------------------------------------------------------------------------
\* Answers of the upstream fetch
\* ------------------------------------------------------------------------

\* A JSON property that holds a list, null, or is missing
ListV(items) == [t |-> "list", items |-> items]

NullV == [t |-> "null", items |-> <<>>]

UndefV == [t |-> "undef", items |-> <<>>]

\* A parsed body: a top-level array, an object with its users and data
\* properties, or JSON null; "invalid" is a text JSON.parse rejects.
ArrayBody(items) == [t |-> "array", items |-> items, users |-> UndefV, data |-> UndefV]

ObjectBody(users, data) == [t |-> "object", items |-> <<>>, users |-> users, data |-> data]

NullBody == [t |-> "null", items |-> <<>>, users |-> UndefV, data |-> UndefV]

InvalidBody == [t |-> "invalid", items |-> <<>>, users |-> UndefV, data |-> UndefV]

\* fetch resolved with a status and a body, or rejected (network failure)
Http(status, body) == [kind |-> "http", status |-> status, body |-> body]

Throw == [kind |-> "throw", status |-> 0, body |-> InvalidBody]

NoAnswer == [kind |-> "none", status |-> 0, body |-> InvalidBody]

\* resp.ok
IsOk(status) == status >= 200 /\ status <= 299

\* ------------------------------------------------------------------------
\* GET (page.tsx 374-459)
\* ------------------------------------------------------------------------

\* GET looking into the cache before it asks the rate limiter
GetBeforeFetchCacheFirst(key, param, h, rm, c, t) ==
    LET fid == Trim(param)
        stop(r) == [resp |-> r, fetch |-> FALSE, fid |-> fid,
                    rateMap |-> rm, cache |-> c]
    IN  IF ~key THEN stop(Failure(500, "NEYNAR_API_KEY not set", 0, "none"))
        ELSE IF fid = <<>>
        THEN stop(Failure(400, "Missing query param: fid", 0, "none"))
        ELSE IF HasComma(fid) \/ ~AllDigits(fid)
        THEN stop(Failure(400, "This endpoint accepts a single numeric fid (digits only)",
                          0, "none"))
        ELSE
            LET got == getFromCache(c, fid, t) IN
            IF Truthy(got.value)
            THEN [resp |-> Success(normalizeUser(got.value), "HIT"),
                  fetch |-> FALSE, fid |-> fid, rateMap |-> rm, cache |-> got.cache]
            ELSE
                LET rl == isRateLimited(rm, getClientIp(h), t) IN
                IF rl.limited
                THEN [resp |-> Failure(429, "Rate limit exceeded", 0, "limit"),
                      fetch |-> FALSE, fid |-> fid,
                      rateMap |-> rl.rateMap, cache |-> got.cache]
                ELSE [resp |-> NoResp, fetch |-> TRUE, fid |-> fid,
                      rateMap |-> rl.rateMap, cache |-> got.cache]

\* GET testing for the API key only after it has validated the fid
GetBeforeFetchKeyLate(key, param, h, rm, c, t) ==
    LET fid == Trim(param)
        stop(r) == [resp |-> r, fetch |-> FALSE, fid |-> fid,
                    rateMap |-> rm, cache |-> c]
    IN  IF fid = <<>>
        THEN stop(Failure(400, "Missing query param: fid", 0, "none"))
        ELSE IF HasComma(fid) \/ ~AllDigits(fid)
        THEN stop(Failure(400, "This endpoint accepts a single numeric fid (digits only)",
                          0, "none"))
        ELSE IF ~key THEN stop(Failure(500, "NEYNAR_API_KEY not set", 0, "none"))
        ELSE
            LET rl == isRateLimited(rm, getClientIp(h), t) IN
            IF rl.limited
            THEN [resp |-> Failure(429, "Rate limit exceeded", 0, "limit"),
                  fetch |-> FALSE, fid |-> fid, rateMap |-> rl.rateMap, cache |-> c]
            ELSE
                LET got == getFromCache(c, fid, t) IN
                IF Truthy(got.value)
                THEN [resp |-> Success(normalizeUser(got.value), "HIT"),
                      fetch |-> FALSE, fid |-> fid,
                      rateMap |-> rl.rateMap, cache |-> got.cache]
                ELSE [resp |-> NoResp, fetch |-> TRUE, fid |-> fid,
                      rateMap |-> rl.rateMap, cache |-> got.cache]

\* Lines 376-412, up to the await of the upstream fetch, at Date.now() = t.
\* key: whether NEYNAR_API_KEY is set; param: the fid query parameter ("" when
\* missing); h: the request's headers. Yields the response (NoResp when the
\* handler goes on to fetch), whether it fetches, and the maps it leaves.
GetBeforeFetch(key, param, h, rm, c, t) ==
    LET fid == Trim(param)
        stop(r) == [resp |-> r, fetch |-> FALSE, fid |-> fid,
                    rateMap |-> rm, cache |-> c]
    IN  IF ~key THEN stop(Failure(500, "NEYNAR_API_KEY not set", 0, "none"))
        ELSE IF fid = <<>>
        THEN stop(Failure(400, "Missing query param: fid", 0, "none"))
        ELSE IF HasComma(fid) \/ ~AllDigits(fid)
        THEN stop(Failure(400, "This endpoint accepts a single numeric fid (digits only)",
                          0, "none"))
        ELSE
            LET rl == isRateLimited(rm, getClientIp(h), t) IN
            IF rl.limited
            THEN [resp |-> Failure(429, "Rate limit exceeded", 0, "limit"),
                  fetch |-> FALSE, fid |-> fid, rateMap |-> rl.rateMap, cache |-> c]
            ELSE
                LET got == getFromCache(c, fid, t) IN
                IF Truthy(got.value)
                THEN [resp |-> Success(normalizeUser(got.value), "HIT"),
                      fetch |-> FALSE, fid |-> fid,
                      rateMap |-> rl.rateMap, cache |-> got.cache]
                ELSE [resp |-> NoResp, fetch |-> TRUE, fid |-> fid,
                      rateMap |-> rl.rateMap, cache |-> got.cache]

\* The list taken from data also when users is an empty list (|| for ??)
UsersOfNonEmpty(json) ==
    IF json.t = "array" THEN json.items
    ELSE IF json.users.t = "list" /\ json.users.items # <<>> THEN json.users.items
    ELSE IF json.data.t = "list" THEN json.data.items
    ELSE <<>>

\* const users = Array.isArray(json) ? json : json.users ?? json.data ?? []
\* (json is not null here)
UsersOf(json) ==
    IF json.t = "array" THEN json.items
    ELSE IF json.users.t = "list" THEN json.users.items
    ELSE IF json.data.t = "list" THEN json.data.items
    ELSE <<>>

\* encodeURIComponent(s), for the characters of the model's texts: letters
\* and digits stay, a blank and a comma are percent-encoded.
RECURSIVE encodeURIComponent(_)
encodeURIComponent(s) ==
    IF s = <<>> THEN <<>>
    ELSE (CASE s[1] = " " -> <<"%", "2", "0">>
            [] s[1] = "," -> <<"%", "2", "C">>
            [] OTHER -> <<s[1]>>) \o encodeURIComponent(SubSeq(s, 2, Len(s)))

\* The fallback link without the fid
FallbackLinkBare(fid) == <<"farcaster.xyz/">>

\* `https://farcaster.xyz/${encodeURIComponent(fid)}`, after "https://"
FallbackLink(fid) == <<"farcaster.xyz/">> \o encodeURIComponent(fid)

\* The test taking 401 alone for an auth failure
IsAuthFailure401(status) == status = 401

\* resp.status === 401 || resp.status === 403
IsAuthFailure(status) == status = 401 \/ status = 403

\* The catch answering without an error text
InternalErrorNoText == Failure(500, "", 0, "err")

\* The catch of line 455
InternalError == Failure(500, "Internal server error", 0, "err")

\* A line written to the console: its level (the console method called),
\* its text, and the credit total and the fid the text quotes.
ConsoleLine(level, text, total, fid) ==
    [level |-> level, text |-> text, total |-> total, fid |-> fid]

\* console.error("profiles route error:", err), line 456
ErrorLine == ConsoleLine("error", "profiles route error:", 0, <<>>)

\* console.log(`creditsUsed += 2 (total ${creditsUsed}) for fid ${foundFid}`),
\* line 452
CreditsLine(total, foundFid) == ConsoleLine("log", "creditsUsed += 2", total, foundFid)

\* GET refusing to serve from the upstream once creditsUsed has reached a
\* budget of 4
GetAfterFetchMetered(fid, a, c, credits, t) ==
    LET keep(r) == [resp |-> r, cache |-> c, creditsUsed |-> credits,
                    console |-> IF r.status = 500 THEN <<ErrorLine>> ELSE <<>>] IN
    IF credits >= 4
    THEN keep(Failure(402, "Payment required by Neynar for this endpoint", 0, "text"))
    ELSE
    IF a.kind = "throw" THEN keep(InternalError)
    ELSE IF a.status = 402
    THEN keep([Failure(402, "Payment required by Neynar for this endpoint", 0, "text")
               EXCEPT !.fallback = FallbackLink(fid)])
    ELSE IF IsAuthFailure(a.status)
    THEN keep(Failure(a.status, "Neynar auth failed", 0, "text"))
    ELSE IF ~IsOk(a.status)
    THEN keep(Failure(502, "Neynar returned", a.status, "text"))
    ELSE IF a.body.t = "invalid"
    THEN keep(Failure(502, "Invalid JSON from Neynar", 0, "text"))
    ELSE IF a.body.t = "null" THEN keep(InternalError)
    ELSE
        LET users == UsersOf(a.body) IN
        IF users = <<>> THEN keep(Failure(404, "Not found", 0, "none"))
        ELSE
            LET user == users[1] IN
            IF user.t = "null" THEN keep(InternalError)
            ELSE
                LET foundFid ==
                        JsString(Coalesce(Read(user, "fid"),
                                 Coalesce(Read(user, "id"), Str(<<>>))))
                IN  [resp |-> Success(normalizeUser(user), "MISS"),
                     cache |-> setCache(c, foundFid, user, t),
                     creditsUsed |-> credits + 2,
                     console |-> <<CreditsLine(credits + 2, foundFid)>>]

\* Lines 412-458, from the upstream's answer a to the lookup of fid, at
\* Date.now() = t. Yields the response, the cache, creditsUsed and the lines
\* written to the console.
GetAfterFetch(fid, a, c, credits, t) ==
    LET keep(r) == [resp |-> r, cache |-> c, creditsUsed |-> credits,
                    console |-> IF r.status = 500 THEN <<ErrorLine>> ELSE <<>>] IN
    IF a.kind = "throw" THEN keep(InternalError)
    ELSE IF a.status = 402
    THEN keep([Failure(402, "Payment required by Neynar for this endpoint", 0, "text")
               EXCEPT !.fallback = FallbackLink(fid)])
    ELSE IF IsAuthFailure(a.status)
    THEN keep(Failure(a.status, "Neynar auth failed", 0, "text"))
    ELSE IF ~IsOk(a.status)
    THEN keep(Failure(502, "Neynar returned", a.status, "text"))
    ELSE IF a.body.t = "invalid"
    THEN keep(Failure(502, "Invalid JSON from Neynar", 0, "text"))
    ELSE IF a.body.t = "null" THEN keep(InternalError)
    ELSE
        LET users == UsersOf(a.body) IN
        IF users = <<>> THEN keep(Failure(404, "Not found", 0, "none"))
        ELSE
            LET user == users[1] IN
            IF user.t = "null" THEN keep(InternalError)
            ELSE
                LET foundFid ==
                        JsString(Coalesce(Read(user, "fid"),
                                 Coalesce(Read(user, "id"), Str(<<>>))))
                IN  [resp |-> Success(normalizeUser(user), "MISS"),
                     cache |-> setCache(c, foundFid, user, t),
                     creditsUsed |-> credits + 2,
                     console |-> <<CreditsLine(credits + 2, foundFid)>>]

\* ------------------------------------------------------------------------
\* Inputs
\* ------------------------------------------------------------------------

\* Values of the fid query parameter: missing or empty, digits, digits with
\* a leading zero, digits with surrounding blanks, a comma-separated list,
\* digits followed by a letter.
Params ==
    {<<>>, <<"7">>, <<"0", "7">>, <<" ", "7", " ">>, <<"7", ",", "8">>, <<"7", "a">>}

\* Request headers: a proxied client, a client known by x-real-ip, and one
\* known by its host header only.
ProxiedA == [fwd |-> <<"a", "p">>, realip |-> "", host |-> "h"]

RealB == [fwd |-> <<>>, realip |-> "b", host |-> "h"]

HostA == [fwd |-> <<>>, realip |-> "", host |-> "a"]

Headers == {ProxiedA, RealB, HostA}

\* Raw user records the upstream may answer with
Alice == ObjItem([fid |-> Num(7), display_name |-> Str(<<"A">>), follower_count |-> Num(10)])

AliceById ==
    ObjItem([id |-> Num(7), username |-> Str(<<"a">>), profile |-> Obj,
             profile__bio |-> Obj, profile__bio__text |-> Str(<<"x">>)])

Bob == ObjItem([fid |-> Num(8), displayName |-> Null, name |-> Str(<<"B">>)])

Anonymous == ObjItem([display_name |-> Str(<<"A">>), fid |-> Null])

\* The record of the user 2: its fid, a display_name and a follower_count
ExampleUser ==
    ObjItem([fid |-> Num(2), display_name |-> Str(<<"A", "l", "i", "c", "e">>),
             follower_count |-> Num(10)])

\* A value for each top-level property normalizeUser reads
TopValue ==
    [displayName |-> Str(<<"d">>), display_name |-> Str(<<"s">>), name |-> Str(<<"n">>),
     username |-> Str(<<"u">>), handle |-> Str(<<"h">>),
     pfp_url |-> Str(<<"p">>), avatar_url |-> Str(<<"v">>),
     bio |-> Str(<<"b">>),
     follower_count |-> Num(0), followersCount |-> Num(5)]

\* The top-level properties, grouped by the field they are read for
TopGroups ==
    {{"displayName", "display_name", "name"}, {"username", "handle"},
     {"pfp_url", "avatar_url"}, {"bio"}, {"follower_count", "followersCount"}}

\* The record r without the properties K
Without(r, K) == [k \in (DOMAIN r) \ K |-> r[k]]

\* Every way the properties K can appear in a JSON object: each is missing,
\* null, or holds its value of V.
Options(K, V) ==
    UNION {{[k \in D |-> IF k \in N THEN Null ELSE V[k]] : N \in SUBSET D} : D \in SUBSET K}

\* Top-level parts of a record: one group in every way, the other groups
\* all missing or all present.
Tops ==
    UNION {{g @@ Without(b, G) : g \in Options(G, TopValue), b \in {<<>>, TopValue}}
           : G \in TopGroups}

\* The property profile: missing, null, a text, an empty object, or an
\* object with a pfp_url and a bio (null, an empty object, or with a text).
Profiles ==
    {<<>>,
     [profile |-> Null],
     [profile |-> Str(<<"x">>)],
     [profile |-> Obj],
     [profile |-> Obj, profile__pfp_url |-> Str(<<"q">>), profile__bio |-> Null],
     [profile |-> Obj, profile__pfp_url |-> Null, profile__bio |-> Obj],
     [profile |-> Obj, profile__bio |-> Obj, profile__bio__text |-> Str(<<"t">>)],
     [profile |-> Obj, profile__pfp_url |-> Str(<<"q">>), profile__bio |-> Obj,
      profile__bio__text |-> Null]}

\* The property raw: missing, null, an empty object, or an object with a
\* profile (null, or with a pfp_url, a bio and a follower_count).
Raws ==
    {<<>>,
     [raw |-> Null],
     [raw |-> Obj],
     [raw |-> Obj, raw__profile |-> Null],
     [raw |-> Obj, raw__profile |-> Obj, raw__profile__pfp_url |-> Str(<<"r">>),
      raw__profile__bio |-> Obj, raw__profile__bio__text |-> Str(<<"w">>),
      raw__profile__follower_count |-> Num(3)],
     [raw |-> Obj, raw__profile |-> Obj, raw__profile__pfp_url |-> Null,
      raw__profile__bio |-> Obj, raw__profile__bio__text |-> Null,
      raw__profile__follower_count |-> Null],
     [raw |-> Obj, raw__profile |-> Obj, raw__profile__bio |-> Str(<<"y">>),
      raw__profile__follower_count |-> Num(0)]}

\* The identifier properties: fid, id only, fid null beside an id, or none
Identifiers == {[fid |-> Num(7)], [id |-> Num(7)], [fid |-> Null, id |-> Num(7)], <<>>}

\* Raw user records given to normalizeUser
RawRecords ==
    {ObjItem(i @@ t @@ pr @@ rw) :
        i \in Identifiers, t \in Tops, pr \in Profiles, rw \in Raws}

\* Bodies of a 2xx answer
Bodies ==
    {InvalidBody, NullBody, ArrayBody(<<>>), ArrayBody(<<Alice, Bob>>),
     ObjectBody(UndefV, UndefV), ObjectBody(ListV(<<>>), ListV(<<Alice>>)),
     ObjectBody(NullV, ListV(<<Bob>>)), ObjectBody(ListV(<<AliceById>>), UndefV),
     ObjectBody(ListV(<<Anonymous>>), UndefV), ObjectBody(ListV(<<NullItem>>), UndefV),
     ObjectBody(ListV(<<PrimItem>>), UndefV),
     ObjectBody(ListV(<<ExampleUser>>), UndefV)}

\* Answers of the upstream: a network failure, an error status (whose body is
\* not parsed), or a 2xx status with a body.
Answers ==
    {Throw}
    \cup {Http(st, InvalidBody) : st \in {401, 402, 403, 404, 500}}
    \cup {Http(200, b) : b \in Bodies}

\* ------------------------------------------------------------------------
\* The page (src/unnamed/part_000, component Home). Its state is a record:
\* query, profile, loading, errorMsg and toast are the useState values of
\* lines 22-26 (null is <<>>, a value v is <<v>>); timers holds the times at
\* which the pending setTimeout callbacks of showToast are due; pc tells
\* whether searchFid awaits its fetch, and fid is the fid it sent.
\* ------------------------------------------------------------------------

InitialPage ==
    [query |-> <<>>, profile |-> <<>>, loading |-> FALSE, errorMsg |-> <<>>,
     toast |-> <<>>, timers |-> {}, pc |-> "idle", fid |-> <<>>]

\* What the fetch of /api/profiles yields: the fetch fails, or a response
\* with res.ok and a body; the body is not JSON, or null, or an object with a
\* fid and maybe an error text.
PageThrow == [kind |-> "throw", ok |-> FALSE, json |-> [t |-> "invalid", error |-> <<>>]]

PageHttp(ok, json) == [kind |-> "http", ok |-> ok, json |-> json]

PageJsons ==
    {[t |-> "invalid", error |-> <<>>], [t |-> "null", error |-> <<>>],
     [t |-> "obj", error |-> <<>>], [t |-> "obj", error |-> <<"Not found">>],
     [t |-> "obj", error |-> <<"">>]}

PageResponses == {PageThrow} \cup {PageHttp(ok, j) : ok \in BOOLEAN, j \in PageJsons}

\* Texts typed into the search field
Queries == {<<>>, <<" ">>, <<"7">>, <<" ", "7", " ">>, <<"7", "a">>, <<"1", "2">>, <<"7", ",", "8">>}

\* The search button and the Enter key with no check of loading
CanSearchAlways(pg) == TRUE

\* disabled={loading} (line 168) and `!loading &&` (line 160)
CanSearch(pg) == ~pg.loading

\* searchFid up to its await (lines 88-99). works tells whether the calls of
\* triggerHaptic return; when sdk.haptics throws, the one of line 89 ends
\* searchFid before it has set anything.
searchFidStart(pg, works) ==
    IF ~works THEN pg
    ELSE
        LET cleared == [pg EXCEPT !.errorMsg = <<>>, !.profile = <<>>]
            fid == Trim(pg.query)
        IN  IF fid = <<>>
            THEN [cleared EXCEPT !.errorMsg = <<"Please enter a numeric FID.">>]
            ELSE IF ~AllDigits(fid)
            THEN [cleared EXCEPT !.errorMsg = <<"FID must be numeric.">>]
            ELSE [cleared EXCEPT !.loading = TRUE, !.pc = "fetching", !.fid = fid]

\* searchFid resetting loading at the end of the try block only
searchFidSettleNoFinally(pg, res, works) ==
    IF res.kind = "throw" \/ res.json.t = "invalid" \/ ~works
    THEN [pg EXCEPT !.pc = "idle",
                    !.errorMsg = IF works THEN <<"Network error. Please try again.">>
                                 ELSE pg.errorMsg]
    ELSE IF ~res.ok
    THEN [pg EXCEPT !.loading = FALSE, !.pc = "idle",
                    !.errorMsg = IF res.json.t = "null" \/ res.json.error = <<>>
                                 THEN <<"Unknown error">>
                                 ELSE res.json.error]
    ELSE [pg EXCEPT !.loading = FALSE, !.pc = "idle",
                    !.profile = IF res.json.t = "null" THEN <<>> ELSE <<res.json>>]

\* searchFid from its await to its end (lines 100-114): res is what the
\* fetch yields. A triggerHaptic that throws in the try block leads to the
\* catch, whose own triggerHaptic throws again before setErrorMsg; the
\* finally block runs on every path.
searchFidSettle(pg, res, works) ==
    LET caught == IF works
                  THEN [pg EXCEPT !.errorMsg = <<"Network error. Please try again.">>]
                  ELSE pg
        tried ==
            IF res.kind = "throw" \/ res.json.t = "invalid" THEN caught
            ELSE IF ~works THEN caught
            ELSE IF ~res.ok
            THEN [pg EXCEPT !.errorMsg = IF res.json.t = "null" \/ res.json.error = <<>>
                                         THEN <<"Unknown error">>
                                         ELSE res.json.error]
            ELSE [pg EXCEPT !.profile = IF res.json.t = "null" THEN <<>> ELSE <<res.json>>]
    IN  [tried EXCEPT !.loading = FALSE, !.pc = "idle"]

\* showToast(message) at Date.now() = t (lines 70-73): the toast, and the
\* timer that is due TOAST_MS later. Timers due at the same time do the
\* same, so the pending timers are kept as the set of their due times.
showToast(pg, message, t) ==
    [pg EXCEPT !.toast = <<[msg |-> message, id |-> t]>>,
               !.timers = @ \cup {t + TOAST_MS}]

\* The callback of line 72, of the timer due at the time due: setToast(null)
toastTimeout(pg, due) ==
    [pg EXCEPT !.toast = <<>>, !.timers = @ \ {due}]

\* ------------------------------------------------------------------------
\* State
\* ------------------------------------------------------------------------

VARIABLES
    now,          \* Date.now()
    apiKey,       \* whether process.env.NEYNAR_API_KEY is set
    rateMap,      \* Map ip -> {count, windowStart}
    cache,        \* Map fid -> {value, expiresAt}
    creditsUsed,  \* the credit counter
    pc,           \* per activation of GET: "idle" or "waiting" (awaiting the fetch)
    req,          \* per activation: the lookup it is serving
    calls,        \* upstream requests issued so far
    last,         \* the lookup answered most recently, with its response
    first,        \* per client key: its first window, as an observer sees it
    norm,         \* a call of normalizeUser: its argument u and its result
    twin,         \* a second run of the route, fed the same requests and answers
    admits,       \* the times at which lookups were admitted, as an observer sees them
    page          \* the state of the page component Home, its search and its timers

vars == <<now, apiKey, rateMap, cache, creditsUsed, pc, req, calls, last, first, norm,
          twin, admits, page>>

NoReq == [param |-> <<>>, fid |-> <<>>, ip |-> ""]

\* A lookup that was answered: its request, whether it
\* was answered before or after an upstream fetch ("start" or "finish"), the
\* upstream's answer, the response, the expiresAt of the cache entry it
\* read (a hit) or wrote (a miss that succeeded), else 0, and the lines it
\* wrote to the console.
Answered(phase, r, a, resp, exp, out) ==
    [phase |-> phase, param |-> r.param, fid |-> r.fid, ip |-> r.ip,
     answer |-> a, resp |-> resp, exp |-> exp, console |-> out]

\* No call of normalizeUser under observation. result is <<>> until the call
\* returns, threw tells that it raised instead.
NoCall == [u |-> NullItem, result |-> <<>>, threw |-> FALSE]

\* The second run before its first request: the module state of lines
\* 309-314, whether GET awaits the upstream (for which fid), and the last
\* response.
NoTwin ==
    [rateMap |-> EmptyMap, cache |-> EmptyMap, creditsUsed |-> 0,
     fetch |-> FALSE, fid |-> <<>>, resp |-> NoResp]

Init ==
    /\ twin = NoTwin
    /\ admits = <<>>
    /\ page = InitialPage
    /\ now = 0
    /\ apiKey \in BOOLEAN
    /\ rateMap = EmptyMap
    /\ cache = EmptyMap
    /\ creditsUsed = 0
    /\ pc = [p \in Procs |-> "idle"]
    /\ req = [p \in Procs |-> NoReq]
    /\ calls = 0
    /\ last = Answered("none", NoReq, NoAnswer, NoResp, 0, <<>>)
    /\ first = EmptyMap
    /\ norm = NoCall

\* Time passes.
Tick ==
    /\ now < MaxTime
    /\ now' = now + 1
    /\ UNCHANGED <<apiKey, rateMap, cache, creditsUsed, pc, req, calls, last, first, norm>>
    /\ UNCHANGED <<twin, admits, page>>

\* The observer of a client key's first window: the time of its first lookup
\* that got past validation, and how many such lookups it made no later than
\* RATE_LIMIT_WINDOW_MS after it.
Observe(f, ip, t) ==
    IF ip \notin DOMAIN f THEN MapSet(f, ip, [at |-> t, n |-> 1])
    ELSE IF t - f[ip].at <= RATE_LIMIT_WINDOW_MS
    THEN MapSet(f, ip, [at |-> f[ip].at, n |-> f[ip].n + 1])
    ELSE f

\* GET joining a fetch that is in flight for the same fid instead of issuing
\* its own
GetStartCoalesce(p, param, h) ==
    LET r == GetBeforeFetch(apiKey, param, h, rateMap, cache, now)
        ip == getClientIp(h)
        rq == [param |-> param, fid |-> r.fid, ip |-> ip]
        passed == r.fetch \/ r.resp.status \in {200, 429}
        inFlight == \E q \in Procs : pc[q] = "waiting" /\ req[q].fid = r.fid
    IN  /\ pc[p] = "idle"
        /\ r.fetch => calls < MaxUpstream
        /\ ip \in DOMAIN rateMap => rateMap[ip].count < MaxCount
        /\ rateMap' = r.rateMap
        /\ cache' = r.cache
        /\ first' = IF passed THEN Observe(first, ip, now) ELSE first
        /\ IF r.fetch
           THEN /\ pc' = [pc EXCEPT ![p] = "waiting"]
                /\ req' = [req EXCEPT ![p] = rq]
                /\ calls' = IF inFlight THEN calls ELSE calls + 1
                /\ last' = last
           ELSE /\ last' = Answered("start", rq, NoAnswer, r.resp,
                                    IF r.resp.status = 200 THEN cache[r.fid].expiresAt ELSE 0,
                                    <<>>)
                /\ UNCHANGED <<pc, req, calls>>
        /\ UNCHANGED <<now, apiKey, creditsUsed, norm>>

\* A request arrives and GET runs up to its first await (or to its return).
GetStart(p, param, h) ==
    LET r == GetBeforeFetch(apiKey, param, h, rateMap, cache, now)
        ip == getClientIp(h)
        rq == [param |-> param, fid |-> r.fid, ip |-> ip]
        passed == r.fetch \/ r.resp.status \in {200, 429}
    IN  /\ pc[p] = "idle"
        /\ r.fetch => calls < MaxUpstream
        /\ ip \in DOMAIN rateMap => rateMap[ip].count < MaxCount
        /\ rateMap' = r.rateMap
        /\ cache' = r.cache
        /\ first' = IF passed THEN Observe(first, ip, now) ELSE first
        /\ IF r.fetch
           THEN /\ pc' = [pc EXCEPT ![p] = "waiting"]
                /\ req' = [req EXCEPT ![p] = rq]
                /\ calls' = calls + 1
                /\ last' = last
           ELSE /\ last' = Answered("start", rq, NoAnswer, r.resp,
                                    IF r.resp.status = 200 THEN cache[r.fid].expiresAt ELSE 0,
                                    <<>>)
                /\ UNCHANGED <<pc, req, calls>>
        /\ UNCHANGED <<now, apiKey, creditsUsed, norm>>

\* GET fetching once more when the answer does not yield a profile
GetFinishRetry(p, a) ==
    LET r == GetAfterFetch(req[p].fid, a, cache, creditsUsed, now) IN
    /\ pc[p] = "waiting"
    /\ IF r.resp.status # 200 /\ calls < MaxUpstream
       THEN /\ calls' = calls + 1
            /\ UNCHANGED <<cache, creditsUsed, pc, req, last>>
       ELSE /\ cache' = r.cache
            /\ creditsUsed' = r.creditsUsed
            /\ pc' = [pc EXCEPT ![p] = "idle"]
            /\ req' = [req EXCEPT ![p] = NoReq]
            /\ last' = Answered("finish", req[p], a, r.resp,
                                IF r.resp.status = 200 THEN now + CACHE_TTL_MS ELSE 0,
                                r.console)
            /\ calls' = calls
    /\ UNCHANGED <<now, apiKey, rateMap, first, norm>>

\* The upstream answers (or the fetch fails) and GET runs to its return.
GetFinish(p, a) ==
    LET r == GetAfterFetch(req[p].fid, a, cache, creditsUsed, now) IN
    /\ pc[p] = "waiting"
    /\ cache' = r.cache
    /\ creditsUsed' = r.creditsUsed
    /\ pc' = [pc EXCEPT ![p] = "idle"]
    /\ req' = [req EXCEPT ![p] = NoReq]
    /\ last' = Answered("finish", req[p], a, r.resp,
                        IF r.resp.status = 200 THEN now + CACHE_TTL_MS ELSE 0,
                        r.console)
    /\ UNCHANGED <<now, apiKey, rateMap, calls, first, norm>>

\* Lookups by the activations P with parameters Ps, headers Hs and upstream
\* answers As.
Lookups(P, Ps, Hs, As) ==
    \/ Tick
    \/ /\ \E p \in P, param \in Ps, h \in Hs : GetStart(p, param, h)
       /\ UNCHANGED <<twin, admits, page>>
    \/ /\ \E p \in P, a \in As : GetFinish(p, a)
       /\ UNCHANGED <<twin, admits, page>>

\* One lookup at a time, with every kind of parameter, while time passes;
\* the upstream fails, or answers with one of two records of the user 7.
Next ==
    Lookups({1}, Params, {ProxiedA},
            {Throw, Http(200, ArrayBody(<<Alice, Bob>>)),
             Http(200, ObjectBody(ListV(<<AliceById>>), UndefV))})

Spec == Init /\ [][Next]_vars

\* Concurrent lookups of one client (seen through two kinds of headers) for
\* the fids 7 and 07.
NextConc ==
    Lookups(Procs, {<<"7">>, <<"0", "7">>}, {ProxiedA, HostA},
            {Throw, Http(200, ArrayBody(<<Alice, Bob>>)),
             Http(200, ObjectBody(ListV(<<AliceById>>), UndefV))})

SpecConc == Init /\ [][NextConc]_vars

\* One lookup at a time, of the fid 7 or 2, with every answer of the
\* upstream, all at one instant (what GET makes of an answer does not depend
\* on the time, but for the expiresAt it writes).
NextUpstream ==
    \/ /\ \E param \in {<<"7">>, <<"2">>} : GetStart(1, param, ProxiedA)
       /\ UNCHANGED <<twin, admits, page>>
    \/ /\ \E a \in Answers : GetFinish(1, a)
       /\ UNCHANGED <<twin, admits, page>>

SpecUpstream == Init /\ [][NextUpstream]_vars

\* One lookup at a time, of the fid 7 or 2, while time passes; the upstream
\* answers with the records of the users 7 and 8 or with the record of the
\* user 2, so that the cache comes to hold entries of different ages.
NextExpiry ==
    Lookups({1}, {<<"7">>, <<"2">>}, {ProxiedA},
            {Http(200, ArrayBody(<<Alice, Bob>>)),
             Http(200, ObjectBody(ListV(<<ExampleUser>>), UndefV))})

SpecExpiry == Init /\ [][NextExpiry]_vars

\* normalizeUser called with a raw record u
InitNormalize ==
    /\ twin = NoTwin
    /\ admits = <<>>
    /\ page = InitialPage
    /\ now = 0
    /\ apiKey = TRUE
    /\ rateMap = EmptyMap
    /\ cache = EmptyMap
    /\ creditsUsed = 0
    /\ pc = [p \in Procs |-> "idle"]
    /\ req = [p \in Procs |-> NoReq]
    /\ calls = 0
    /\ last = Answered("none", NoReq, NoAnswer, NoResp, 0, <<>>)
    /\ first = EmptyMap
    /\ norm \in {[u |-> u, result |-> <<>>, threw |-> FALSE] : u \in RawRecords}

\* normalizeUser(u) returns or raises
Normalize ==
    /\ norm.u # NullItem
    /\ norm.result = <<>>
    /\ ~norm.threw
    /\ norm' = IF normalizeUserThrows(norm.u)
               THEN [norm EXCEPT !.threw = TRUE]
               ELSE [norm EXCEPT !.result = <<normalizeUser(norm.u)>>]
    /\ UNCHANGED <<now, apiKey, rateMap, cache, creditsUsed, pc, req, calls, last, first>>
    /\ UNCHANGED <<twin, admits, page>>

NextNormalize == Normalize

SpecNormalize == InitNormalize /\ [][NextNormalize]_vars

\* Lookups of the fid 7 while time passes. The clock goes on by itself; that
\* a request arrives, and that the upstream answers or the fetch fails, is
\* left to the client and to the upstream: GET passes no timeout or abort
\* signal to fetch (line 412), so nothing in the route ends the wait.
NextLive ==
    Lookups({1}, {<<"7">>, <<"0", "7">>}, {ProxiedA},
            {Throw, Http(200, ArrayBody(<<Alice, Bob>>))})

SpecLive == Init /\ [][NextLive]_vars /\ WF_vars(Tick)

\* The values of creditsUsed the second run starts with
TwinCredits == {2, 4}

\* Two runs of the route that start alike but for creditsUsed
InitTwin ==
    /\ twin \in {[NoTwin EXCEPT !.creditsUsed = c] : c \in TwinCredits}
    /\ admits = <<>>
    /\ page = InitialPage
    /\ now = 0
    /\ apiKey \in BOOLEAN
    /\ rateMap = EmptyMap
    /\ cache = EmptyMap
    /\ creditsUsed = 0
    /\ pc = [p \in Procs |-> "idle"]
    /\ req = [p \in Procs |-> NoReq]
    /\ calls = 0
    /\ last = Answered("none", NoReq, NoAnswer, NoResp, 0, <<>>)
    /\ first = EmptyMap
    /\ norm = NoCall

\* The second run receives the request: GET up to its first await (or to its
\* return), on the second run's rateMap and cache.
TwinStart(param, h) ==
    LET r == GetBeforeFetch(apiKey, param, h, twin.rateMap, twin.cache, now) IN
    [rateMap |-> r.rateMap, cache |-> r.cache, creditsUsed |-> twin.creditsUsed,
     fetch |-> r.fetch, fid |-> r.fid,
     resp |-> IF r.fetch THEN twin.resp ELSE r.resp]

\* The second run receives the upstream's answer: GET from the await to its
\* return, on the second run's cache and creditsUsed.
TwinFinish(a) ==
    IF ~twin.fetch THEN twin
    ELSE LET r == GetAfterFetch(twin.fid, a, twin.cache, twin.creditsUsed, now) IN
         [rateMap |-> twin.rateMap, cache |-> r.cache, creditsUsed |-> r.creditsUsed,
          fetch |-> FALSE, fid |-> twin.fid, resp |-> r.resp]

\* Both runs are fed the same lookups at the same times and the same answers
\* of the upstream.
NextTwin ==
    \/ Tick
    \/ \E param \in {<<"7">>, <<"0", "7">>, <<"7", "a">>} :
           /\ GetStart(1, param, ProxiedA)
           /\ twin' = TwinStart(param, ProxiedA)
           /\ UNCHANGED <<admits, page>>
    \/ \E a \in {Throw, Http(402, InvalidBody), Http(200, ArrayBody(<<>>)),
                  Http(200, ArrayBody(<<Alice, Bob>>))} :
           /\ GetFinish(1, a)
           /\ twin' = TwinFinish(a)
           /\ UNCHANGED <<admits, page>>

SpecTwin == InitTwin /\ [][NextTwin]_vars

\* Long enough for three rate-limit windows of one client
MaxLongTime == 2 * RATE_LIMIT_WINDOW_MS + 2

\* Time passes, over several rate-limit windows.
TickLong ==
    /\ now < MaxLongTime
    /\ now' = now + 1
    /\ UNCHANGED <<apiKey, rateMap, cache, creditsUsed, pc, req, calls, last, first, norm>>
    /\ UNCHANGED <<twin, admits, page>>

\* The observer of admissions: the lookup that GET has just taken got past
\* isRateLimited (lines 396-402) if it went on to the upstream or was answered
\* from the cache.
Admit(p) ==
    IF pc'[p] = "waiting" \/ (last'.phase = "start" /\ last'.resp.status = 200)
    THEN Append(admits, now)
    ELSE admits

\* Lookups of the fid 7 by one client over several rate-limit windows, each
\* admission noted with its time.
NextWindows ==
    \/ TickLong
    \/ /\ GetStart(1, <<"7">>, ProxiedA)
       /\ admits' = Admit(1)
       /\ UNCHANGED <<twin, page>>
    \/ /\ GetFinish(1, Http(200, ArrayBody(<<Alice, Bob>>)))
       /\ UNCHANGED <<twin, admits, page>>

SpecWindows == Init /\ [][NextWindows]_vars

\* Lookups of the fid 7 by two clients, a and b, one at a time, while time
\* passes. The second run receives the lookups of the client a alone, at the
\* same times and with the same answers.
NextClients ==
    \/ Tick
    \/ /\ GetStart(1, <<"7">>, ProxiedA)
       /\ twin' = TwinStart(<<"7">>, ProxiedA)
       /\ UNCHANGED <<admits, page>>
    \/ /\ GetStart(1, <<"7">>, RealB)
       /\ UNCHANGED <<twin, admits, page>>
    \/ \E a \in {Http(200, ArrayBody(<<Alice, Bob>>))} :
           /\ GetFinish(1, a)
           /\ twin' = IF req[1].ip = getClientIp(ProxiedA) THEN TwinFinish(a) ELSE twin
           /\ UNCHANGED <<admits, page>>

SpecClients == Init /\ [][NextClients]_vars

\* The state of the route, which the page's handlers leave alone
routeVars ==
    <<apiKey, rateMap, cache, creditsUsed, pc, req, calls, last, first, norm, twin, admits>>

\* onChange of the search field (line 159)
SetQuery(q) ==
    /\ page' = [page EXCEPT !.query = q]
    /\ UNCHANGED <<now, routeVars>>

\* A click on the search button (lines 166-168)
ClickSearch(works) ==
    /\ CanSearch(page)
    /\ page' = searchFidStart(page, works)
    /\ UNCHANGED <<now, routeVars>>

\* The Enter key in the search field (line 160)
PressEnter(works) ==
    /\ CanSearch(page)
    /\ page' = searchFidStart(page, works)
    /\ UNCHANGED <<now, routeVars>>

\* The fetch of searchFid settles and searchFid runs to its end.
SearchSettle(res, works) ==
    /\ page.pc = "fetching"
    /\ page' = searchFidSettle(page, res, works)
    /\ UNCHANGED <<now, routeVars>>

\* One of the handlers of the page calls showToast (lines 80, 84, 134, 137,
\* 278).
ShowToast(message) ==
    /\ page' = showToast(page, message, now)
    /\ UNCHANGED <<now, routeVars>>

\* A timer of showToast that is due runs its callback.
ToastTimeout(due) ==
    /\ due \in page.timers
    /\ now >= due
    /\ page' = toastTimeout(page, due)
    /\ UNCHANGED <<now, routeVars>>

\* The search of the page: the user types, clicks and presses Enter, and the
\* fetch settles.
NextSearch ==
    \/ \E q \in Queries : SetQuery(q)
    \/ \E works \in BOOLEAN : ClickSearch(works)
    \/ \E works \in BOOLEAN : PressEnter(works)
    \/ \E res \in PageResponses, works \in BOOLEAN : SearchSettle(res, works)

SpecSearch == Init /\ [][NextSearch]_vars

\* The toasts of the page while time passes
NextToast ==
    \/ Tick
    \/ \E message \in {"Added to your apps!", "Address Copied"} : ShowToast(message)
    \/ \E due \in page.timers : ToastTimeout(due)

SpecToast == Init /\ [][NextToast]_vars

\* ------------------------------------------------------------------------
\* Vocabulary of the properties
\* ------------------------------------------------------------------------

\* The text matches ^\d+$
Numeric(s) ==
    /\ Len(s) > 0
    /\ \A i \in 1..Len(s) : s[i] \in {"0", "1", "2", "3", "4", "5", "6", "7", "8", "9"}

\* The failure category a response stands for ("" for a success). The route
\* has no response of its own for UpstreamMalformed and TransportError.
FailureOf(r) ==
    CASE r.status = 200 -> ""
      [] r.status = 400 -> "InvalidInput"
      [] r.status = 429 -> "RateLimited"
      [] r.status = 404 -> "NotFound"
      [] r.status = 402 -> "QuotaExceeded"
      [] r.status \in {401, 403} -> "UpstreamAuthError"
      [] r.status = 502 -> "UpstreamError"
      [] r.status = 500 /\ r.error = "NEYNAR_API_KEY not set" -> "ConfigurationError"
      [] OTHER -> "InternalError"

\* The step is GetStart(p, param, h). What the step leaves in req or last
\* names the request it served; looking at that first spares the evaluation
\* of GetStart for every other request.
Request(p, param, h) ==
    /\ pc[p] = "idle"
    /\ IF pc'[p] = "waiting"
       THEN req'[p].param = param /\ req'[p].ip = getClientIp(h)
       ELSE last'.param = param /\ last'.ip = getClientIp(h)
    /\ GetStart(p, param, h)

\* In a step that is a GetStart: the lookup was rejected by the rate limiter
\* (a lookup that returns at once leaves pc alone and is described by last').
Rejected == pc' = pc /\ last'.resp.status = 429

\* In a step that is a GetStart: the lookup got past the rate limiter, to a
\* cache hit or to the upstream fetch.
Admitted == pc' # pc \/ last'.resp.status = 200

\* ------------------------------------------------------------------------
\* Properties
\* ------------------------------------------------------------------------

\* C1 as stated: a GET whose fid parameter does not match ^\d+$ (digits with
\* surrounding blanks included) returns 400, leaves rateMap, cache and
\* creditsUsed unchanged and issues no upstream request. It is read here in
\* the claim's favour, for the states in which the API key is set (without
\* the key every GET returns 500 before it looks at fid).
C1_InvalidInputAsStated ==
    [][\A p \in Procs, param \in Params, h \in Headers :
          (apiKey /\ ~Numeric(param) /\ Request(p, param, h))
          => /\ FailureOf(last'.resp) = "InvalidInput"
             /\ UNCHANGED <<rateMap, cache, creditsUsed, calls, pc>>]_vars

\* C1 amended: while the API key is set, a GET whose fid parameter, with its
\* surrounding blanks trimmed, does not match ^\d+$ returns 400 for that
\* request, leaves rateMap, cache and creditsUsed unchanged and issues no
\* upstream request.
C1_InvalidInput ==
    [][\A p \in Procs, param \in Params, h \in Headers :
          (apiKey /\ ~Numeric(Trim(param)) /\ Request(p, param, h))
          => /\ last'.resp.status = 400
             /\ last'.param = param
             /\ UNCHANGED <<rateMap, cache, creditsUsed, calls, pc, req>>]_vars

\* A list of fids was answered with 400 after an earlier lookup had filled
\* the rate map and the cache.
C1_Witness ==
    /\ last.phase = "start"
    /\ last.param = <<"7", ",", "8">>
    /\ last.resp.status = 400
    /\ rateMap # EmptyMap
    /\ cache # EmptyMap

\* C2: for a client key with no rate state, the first lookup creates
\* {count: 1, windowStart: now} and is admitted; of the lookups it makes
\* within RATE_LIMIT_WINDOW_MS of the first one, the first
\* RATE_LIMIT_MAX_PER_WINDOW are admitted and the next one is rejected with
\* 429, whatever the identifiers and however the lookups interleave.
C2_FirstWindow ==
    [][\A ip \in {getClientIp(h) : h \in Headers} :
          LET k == first'[ip].n IN
          (/\ ip \in DOMAIN first'
           /\ IF ip \in DOMAIN first THEN k = first[ip].n + 1 ELSE TRUE)
          => /\ k = 1 => rateMap'[ip] = [count |-> 1, windowStart |-> now]
             /\ k <= RATE_LIMIT_MAX_PER_WINDOW => Admitted
             /\ k = RATE_LIMIT_MAX_PER_WINDOW + 1
                  => Rejected /\ FailureOf(last'.resp) = "RateLimited"]_vars

\* A client was rejected on lookup RATE_LIMIT_MAX_PER_WINDOW + 1 of its first
\* window.
C2_Witness ==
    \E ip \in DOMAIN first :
        /\ first[ip].n = RATE_LIMIT_MAX_PER_WINDOW + 1
        /\ last.ip = ip
        /\ last.resp.status = 429

\* C3: a lookup made more than RATE_LIMIT_WINDOW_MS after the windowStart of
\* its client's window is admitted and resets the client's state to
\* {count: 1, windowStart: now}; a lookup made no later than that leaves
\* windowStart as it is.
C3_WindowReset ==
    [][\A p \in Procs, param \in Params, h \in Headers :
          LET ip == getClientIp(h) IN
          (/\ apiKey
           /\ Numeric(Trim(param))
           /\ ip \in DOMAIN rateMap
           /\ Request(p, param, h))
          => IF now - rateMap[ip].windowStart > RATE_LIMIT_WINDOW_MS
             THEN Admitted /\ rateMap'[ip] = [count |-> 1, windowStart |-> now]
             ELSE rateMap'[ip].windowStart = rateMap[ip].windowStart]_vars

\* A client that was rejected in its first window has just been admitted to
\* a new window.
C3_Witness ==
    \E ip \in DOMAIN rateMap :
        /\ first[ip].n > RATE_LIMIT_MAX_PER_WINDOW
        /\ now > first[ip].at + RATE_LIMIT_WINDOW_MS
        /\ rateMap[ip] = [count |-> 1, windowStart |-> now]
        /\ last.resp.status # 429

\* C4 as stated: when a lookup of an identifier has succeeded and the next
\* lookup is for the same identifier, is made before the cache entry of the
\* first one expires and is admitted, then it is answered from the cache
\* without an upstream call and with the same profile, whatever identifier
\* the upstream put in the record.
C4_Idempotent ==
    [][\A p \in Procs, param \in Params, h \in Headers :
          (/\ last.resp.status = 200
           /\ Trim(param) = last.fid
           /\ now <= last.exp
           /\ Request(p, param, h)
           /\ Admitted)
          => /\ pc' = pc
             /\ calls' = calls
             /\ last'.resp.xcache = "HIT"
             /\ last'.resp.profile = last.resp.profile]_vars

\* C5: an admitted lookup of an identifier whose cache entry has
\* now > expiresAt issues an upstream call, is not answered from the cache,
\* and leaves no entry for the identifier.
C5_Expiry ==
    [][\A p \in Procs, param \in Params, h \in Headers :
          LET fid == Trim(param) IN
          (/\ fid \in DOMAIN cache
           /\ now > cache[fid].expiresAt
           /\ Request(p, param, h)
           /\ Admitted)
          => /\ pc[p] = "idle" /\ pc'[p] = "waiting"
             /\ req'[p].fid = fid
             /\ calls' = calls + 1
             /\ last' = last
             /\ fid \notin DOMAIN cache']_vars

\* A lookup is waiting for the upstream although the lookup answered before
\* it had cached a record under the same identifier: that entry had expired.
C5_Witness ==
    \E p \in Procs :
        /\ pc[p] = "waiting"
        /\ last.phase = "finish"
        /\ last.resp.status = 200
        /\ last.resp.profile[1].fid = last.fid
        /\ req[p].fid = last.fid
        /\ calls = 2
        /\ last.fid \notin DOMAIN cache

\* C6: in every reachable state getFromCache(key) returns null exactly when
\* the key has no entry or now > expiresAt, and the stored value otherwise;
\* and a lookup answered from the cache read an entry with expiresAt >= now.
C6_FreshOrMiss ==
    /\ [](\A key \in (DOMAIN cache) \cup {Trim(param) : param \in Params} :
            LET got == getFromCache(cache, key, now).value IN
            IF key \notin DOMAIN cache \/ now > cache[key].expiresAt
            THEN got = NullItem
            ELSE got = cache[key].value /\ got # NullItem)
    /\ [][\A p \in Procs, param \in Params, h \in Headers :
            (Request(p, param, h) /\ pc' = pc /\ last'.resp.status = 200)
            => /\ Trim(param) \in DOMAIN cache
               /\ last'.exp = cache[Trim(param)].expiresAt
               /\ last'.exp >= now
               /\ last'.resp.profile = <<normalizeUser(cache[Trim(param)].value)>>]_vars

\* A lookup was answered from the cache at the very time its entry expires,
\* while another lookup was in flight.
C6_Witness ==
    /\ last.resp.xcache = "HIT"
    /\ last.exp = now
    /\ \E p \in Procs : pc[p] = "waiting"

\* C7 as stated: an upstream answer of status 404 makes the lookup fail with
\* NotFound (HTTP 404).
C7_NotFound ==
    (last.phase = "finish" /\ last.answer.kind = "http" /\ last.answer.status = 404)
    => last.resp.status = 404 /\ FailureOf(last.resp) = "NotFound"

\* The upstream answered 2xx with a list whose first record is an object
\* with neither fid nor id (missing or null).
NoIdentifier(a) ==
    /\ a.kind = "http"
    /\ IsOk(a.status)
    /\ a.body.t \in {"array", "object"}
    /\ UsersOf(a.body) # <<>>
    /\ UsersOf(a.body)[1].t = "obj"
    /\ Nullish(Read(UsersOf(a.body)[1], "fid"))
    /\ Nullish(Read(UsersOf(a.body)[1], "id"))

\* C8 as stated: when the first record of a successful upstream answer has
\* no identifier, the lookup fails with UpstreamMalformed, writes nothing to
\* the cache and returns no profile.
C8_Malformed ==
    [][\A p \in Procs, a \in Answers :
          (NoIdentifier(a) /\ GetFinish(p, a))
          => /\ FailureOf(last'.resp) = "UpstreamMalformed"
             /\ last'.resp.profile = <<>>
             /\ cache' = cache]_vars

\* A raw user record in the sense of the data model (a record with an
\* identifier-bearing field) that has none of the display properties
Bare == ObjItem([id |-> Num(70)])

\* C9 as stated: the profile of every successful lookup, and normalizeUser
\* of every raw user record (a record that bears an identifier), has a
\* non-empty all-digits identifier.
C9_Identifier ==
    /\ last.resp.status = 200 => Numeric(last.resp.profile[1].fid)
    /\ \A u \in {Alice, AliceById, Bob, Bare} : Numeric(normalizeUser(u).fid)

\* C10 as stated: when the upstream fetch throws, the lookup fails with
\* TransportError, a failure told apart from every other category, the
\* internal error included.
C10_Transport ==
    (last.phase = "finish" /\ last.answer.kind = "throw")
    => FailureOf(last.resp) = "TransportError"

\* C11: when the upstream answers 402 to a lookup that missed the cache,
\* the lookup fails with QuotaExceeded (HTTP 402), its response carries the
\* fallback link farcaster.xyz/<the requested identifier>, and the cache and
\* creditsUsed stay as they were.
C11_QuotaExceeded ==
    [][\A p \in Procs, a \in Answers :
          (GetFinish(p, a) /\ a.kind = "http" /\ a.status = 402)
          => /\ last'.resp.status = 402
             /\ FailureOf(last'.resp) = "QuotaExceeded"
             /\ last'.resp.fallback = <<"farcaster.xyz/">> \o req[p].param
             /\ last'.resp.profile = <<>>
             /\ cache' = cache
             /\ creditsUsed' = creditsUsed]_vars

\* A lookup of 2 was answered 402 by the upstream after an earlier lookup
\* had been served and cached.
C11_Witness ==
    /\ last.phase = "finish"
    /\ last.answer.status = 402
    /\ last.resp.status = 402
    /\ last.resp.fallback = <<"farcaster.xyz/", "2">>
    /\ creditsUsed = 2
    /\ DOMAIN cache # {}

\* C12: when the upstream answers 401 or 403 to a lookup that missed the
\* cache, the lookup fails with UpstreamAuthError (the upstream's status and
\* the text "Neynar auth failed"), not with UpstreamError, and the cache
\* stays as it was.
C12_AuthError ==
    [][\A p \in Procs, a \in Answers :
          (GetFinish(p, a) /\ a.kind = "http" /\ a.status \in {401, 403})
          => /\ FailureOf(last'.resp) = "UpstreamAuthError"
             /\ last'.resp.status = a.status
             /\ last'.resp.status # 502
             /\ last'.resp.error = "Neynar auth failed"
             /\ last'.resp.profile = <<>>
             /\ cache' = cache]_vars

\* The upstream answered 403 to a lookup while an earlier record was cached.
C12_Witness ==
    /\ last.phase = "finish"
    /\ last.answer.status = 403
    /\ last.resp.status = 403
    /\ last.resp.error = "Neynar auth failed"
    /\ DOMAIN cache # {}

\* The upstream's answer is a non-2xx status other than 401, 402 and 403,
\* or a 2xx status with a malformed body: a text that is not JSON, JSON
\* null, or an object whose users and data hold no array.
MalformedAnswer(a) ==
    /\ a.kind = "http"
    /\ \/ (a.status < 200 \/ a.status > 299) /\ a.status \notin {401, 402, 403}
       \/ /\ a.status >= 200 /\ a.status <= 299
          /\ \/ a.body.t \in {"invalid", "null"}
             \/ a.body.t = "object" /\ a.body.users.t # "list" /\ a.body.data.t # "list"

\* C13 as stated: when the upstream answers a lookup that missed the cache
\* with another non-2xx status or with a malformed 2xx body (JSON null
\* included), the lookup fails with UpstreamError (HTTP 502) and its response
\* carries the upstream's raw body.
C13_UpstreamError ==
    (last.phase = "finish" /\ MalformedAnswer(last.answer))
    => /\ last.resp.status = 502
       /\ FailureOf(last.resp) = "UpstreamError"
       /\ last.resp.details = "text"

\* The upstream answered 2xx with a well-formed body whose list of records
\* is empty: an empty array, an object whose users is an empty array, or an
\* object without users whose data is an empty array.
EmptyList(a) ==
    /\ a.kind = "http"
    /\ a.status >= 200 /\ a.status <= 299
    /\ \/ a.body.t = "array" /\ a.body.items = <<>>
       \/ a.body.t = "object" /\ a.body.users = ListV(<<>>)
       \/ /\ a.body.t = "object"
          /\ a.body.users.t \in {"null", "undef"}
          /\ a.body.data = ListV(<<>>)

\* C14: when the upstream answers 2xx with a well-formed body whose list of
\* records is empty, the lookup fails with NotFound (HTTP 404), returns no
\* profile, and the cache stays as it was.
C14_EmptyNotFound ==
    [][\A p \in Procs, a \in Answers :
          (GetFinish(p, a) /\ EmptyList(a))
          => /\ last'.resp.status = 404
             /\ FailureOf(last'.resp) = "NotFound"
             /\ last'.resp.profile = <<>>
             /\ cache' = cache]_vars

\* A lookup was answered 404 for an object body whose users is an empty
\* array (its data is not), while an earlier record was cached.
C14_Witness ==
    /\ last.phase = "finish"
    /\ last.answer.status = 200
    /\ last.answer.body.t = "object"
    /\ last.answer.body.users = ListV(<<>>)
    /\ last.answer.body.data # ListV(<<>>)
    /\ last.resp.status = 404
    /\ DOMAIN cache # {}

\* The six fields of a normalized profile
ProfileFields == {"fid", "displayName", "username", "avatarUrl", "bio", "followerCount"}

\* The upstream's answer { users: [{ fid: 2, display_name: "Alice",
\* follower_count: 10 }] } with status 200
ExampleAnswer == Http(200, ObjectBody(ListV(<<ExampleUser>>), UndefV))

\* The upstream answered 2xx with a non-empty list whose first element is a
\* record (a JSON object).
FirstIsRecord(a) ==
    /\ a.kind = "http"
    /\ a.status >= 200 /\ a.status <= 299
    /\ a.body.t \in {"array", "object"}
    /\ UsersOf(a.body) # <<>>
    /\ UsersOf(a.body)[1].t = "obj"

\* C15 as stated: the result of a lookup that missed the cache and was
\* answered with a non-empty list consists of the six fields of the
\* normalized profile and of nothing else.
C15_ProfileOnlyAsStated ==
    (last.phase = "finish" /\ FirstIsRecord(last.answer))
    => /\ last.resp.status = 200
       /\ DOMAIN last.resp.profile[1] = ProfileFields

\* C15 amended: a lookup that missed the cache and was answered with a
\* non-empty list whose first element is a record returns normalizeUser of
\* that record: the six fields of the profile, null where absent, and in raw
\* the whole first record; the cache-miss marker is set. For the identifier
\* 2 and the record {fid: 2, display_name: "Alice", follower_count: 10} the
\* result is fid "2", displayName "Alice", followerCount 10, the other three
\* fields null, and raw the record.
C15_FirstRecord ==
    [][\A p \in Procs, a \in Answers :
          (GetFinish(p, a) /\ FirstIsRecord(a))
          => /\ last'.resp.status = 200
             /\ last'.resp.xcache = "MISS"
             /\ last'.resp.profile = <<normalizeUser(UsersOf(a.body)[1])>>
             /\ DOMAIN last'.resp.profile[1] = ProfileFields \cup {"raw"}
             /\ last'.resp.profile[1].raw = UsersOf(a.body)[1]
             /\ (a = ExampleAnswer /\ req[p].param = <<"2">>)
                => last'.resp.profile[1] =
                       [fid |-> <<"2">>,
                        displayName |-> Str(<<"A", "l", "i", "c", "e">>),
                        username |-> Null,
                        avatarUrl |-> Null,
                        bio |-> Null,
                        followerCount |-> Num(10),
                        raw |-> ObjItem([fid |-> Num(2),
                                         display_name |-> Str(<<"A", "l", "i", "c", "e">>),
                                         follower_count |-> Num(10)])]]_vars

\* The first lookup, of the identifier 2 with the cache empty and the rate
\* limiter fresh, was answered by the upstream with the record of Alice.
C15_Witness ==
    /\ last.phase = "finish"
    /\ last.param = <<"2">>
    /\ last.answer = ExampleAnswer
    /\ last.resp.status = 200
    /\ last.resp.profile[1].fid = <<"2">>
    /\ calls = 1
    /\ rateMap[last.ip].count = 1
    /\ DOMAIN cache = {<<"2">>}

\* For each field of the profile, the ordered list of the key spellings it
\* is resolved from; a nested key is given by its path from the record.
Spellings ==
    [displayName |-> <<<<"displayName">>, <<"display_name">>, <<"name">>>>,
     username |-> <<<<"username">>, <<"handle">>>>,
     avatarUrl |-> <<<<"pfp_url">>, <<"avatar_url">>,
                     <<"profile", "profile__pfp_url">>,
                     <<"raw", "raw__profile", "raw__profile__pfp_url">>>>,
     bio |-> <<<<"bio">>,
               <<"profile", "profile__bio", "profile__bio__text">>,
               <<"raw", "raw__profile", "raw__profile__bio", "raw__profile__bio__text">>>>,
     followerCount |-> <<<<"follower_count">>, <<"followersCount">>,
                         <<"raw", "raw__profile", "raw__profile__follower_count">>>>]

\* The record u carries a non-null value at the path: every key of the path
\* is present, the ones before the last hold objects, the last holds a value
\* other than null.
Carries(u, path) ==
    /\ \A i \in 1..Len(path) : path[i] \in DOMAIN u.f
    /\ \A i \in 1..(Len(path) - 1) : u.f[path[i]].t = "obj"
    /\ u.f[path[Len(path)]].t \notin {"null", "undef"}

\* The value at the first path of the list that carries one; null if none
FirstCarried(u, paths) ==
    IF \E i \in 1..Len(paths) : Carries(u, paths[i])
    THEN LET i == CHOOSE i \in 1..Len(paths) :
                      /\ Carries(u, paths[i])
                      /\ \A j \in 1..(i - 1) : ~Carries(u, paths[j])
         IN  u.f[paths[i][Len(paths[i])]]
    ELSE Null

C17_CountsEveryCall ==
    /\ [](\A ip \in DOMAIN rateMap :
            rateMap[ip].windowStart = first[ip].at => rateMap[ip].count = first[ip].n)
    /\ [][\A p \in Procs, param \in Params, h \in Headers :
            LET ip == getClientIp(h) IN
            (/\ Request(p, param, h)
             /\ apiKey
             /\ Numeric(Trim(param))
             /\ ip \in DOMAIN rateMap
             /\ now - rateMap[ip].windowStart <= RATE_LIMIT_WINDOW_MS)
            => /\ rateMap'[ip].count = rateMap[ip].count + 1
               /\ rateMap'[ip].windowStart = rateMap[ip].windowStart
               /\ \A other \in (DOMAIN rateMap) \ {ip} : rateMap'[other] = rateMap[other]
               /\ DOMAIN rateMap' = DOMAIN rateMap
               /\ Admitted <=> rateMap'[ip].count <= RATE_LIMIT_MAX_PER_WINDOW
               /\ Rejected <=> rateMap'[ip].count > RATE_LIMIT_MAX_PER_WINDOW]_vars

\* A client was rejected for the second time in its first window: its count
\* stands two above the maximum, and is the number of lookups it made.
C17_Witness ==
    /\ last.resp.status = 429
    /\ last.ip \in DOMAIN rateMap
    /\ rateMap[last.ip].count = RATE_LIMIT_MAX_PER_WINDOW + 2
    /\ rateMap[last.ip].windowStart = first[last.ip].at
    /\ first[last.ip].n = RATE_LIMIT_MAX_PER_WINDOW + 2

\* C18: in every reachable state, getFromCache(key) for a key whose entry
\* has now > expiresAt returns the miss and leaves the cache without that
\* entry and with every other entry as it was, and for a key that hits or
\* has no entry it leaves the cache as it was; and an admitted lookup changes
\* the cache in just that way before it answers or fetches.
C18_EvictsOnlyExpired ==
    /\ [](\A key \in (DOMAIN cache) \cup {<<"7">>, <<"2">>, <<"9">>} :
            LET got == getFromCache(cache, key, now) IN
            IF key \in DOMAIN cache /\ now > cache[key].expiresAt
            THEN /\ got.value = NullItem
                 /\ DOMAIN got.cache = (DOMAIN cache) \ {key}
                 /\ \A k \in DOMAIN got.cache : got.cache[k] = cache[k]
            ELSE got.cache = cache)
    /\ [][\A p \in Procs, param \in Params, h \in Headers :
            (Request(p, param, h) /\ Admitted)
            => IF Trim(param) \in DOMAIN cache /\ now > cache[Trim(param)].expiresAt
               THEN /\ pc'[p] = "waiting"
                    /\ DOMAIN cache' = (DOMAIN cache) \ {Trim(param)}
                    /\ \A k \in DOMAIN cache' : cache'[k] = cache[k]
               ELSE cache' = cache]_vars

\* The record of 7 was cached, then the record of 2; the entry of 7 expired
\* and 7 was looked up again: that lookup removed the entry of 7, left the
\* unexpired entry of 2 as it was, and now waits for the upstream.
C18_Witness ==
    \E p \in Procs :
        /\ pc[p] = "waiting"
        /\ req[p].fid = <<"7">>
        /\ calls = 3
        /\ creditsUsed = 4
        /\ last.phase = "finish"
        /\ last.param = <<"2">>
        /\ last.resp.status = 200
        /\ last.resp.profile[1].fid = <<"2">>
        /\ last.exp <= CACHE_TTL_MS + CACHE_TTL_MS
        /\ DOMAIN cache = {<<"2">>}
        /\ cache[<<"2">>].expiresAt = last.exp
        /\ now <= last.exp

\* C19: in every reachable state setCache(key, value) yields a cache whose
\* entry for the key is the value with expiresAt = now + CACHE_TTL_MS, whether
\* or not the key had an entry, and whose other entries are as they were; a
\* lookup served by the upstream writes the first record under the returned
\* identifier in just that way; and in every step an entry that is new or
\* changed has expiresAt = now + CACHE_TTL_MS.
C19_Overwrite ==
    /\ [](\A key \in {<<"7">>, <<"8">>}, value \in {Alice, AliceById, Bob} :
            LET c == setCache(cache, key, value, now) IN
            /\ DOMAIN c = (DOMAIN cache) \cup {key}
            /\ c[key].value = value
            /\ c[key].expiresAt = now + CACHE_TTL_MS
            /\ \A k \in (DOMAIN cache) \ {key} : c[k] = cache[k])
    /\ [][\A p \in Procs, a \in Answers :
            (GetFinish(p, a) /\ last'.resp.status = 200)
            => LET key == last'.resp.profile[1].fid IN
               /\ DOMAIN cache' = (DOMAIN cache) \cup {key}
               /\ cache'[key].value = last'.resp.profile[1].raw
               /\ cache'[key].expiresAt = now + CACHE_TTL_MS
               /\ \A k \in (DOMAIN cache) \ {key} : cache'[k] = cache[k]]_vars
    /\ [][\A k \in DOMAIN cache' :
            (k \notin DOMAIN cache \/ cache'[k] # cache[k])
            => cache'[k].expiresAt = now + CACHE_TTL_MS]_vars

\* The lookup of 07 was served by the upstream with the record of the id 7
\* while the entry of 7, written by an earlier lookup, had not expired: the
\* entry was overwritten, and expires CACHE_TTL_MS after this write.
C19_Witness ==
    /\ last.phase = "finish"
    /\ last.param = <<"0", "7">>
    /\ last.resp.status = 200
    /\ creditsUsed = 4
    /\ calls = 2
    /\ 0 < now /\ now <= CACHE_TTL_MS
    /\ DOMAIN cache = {<<"7">>}
    /\ cache[<<"7">>].value = AliceById
    /\ cache[<<"7">>].expiresAt = now + CACHE_TTL_MS

\* C20: a lookup with a valid identifier whose client has used up its
\* window (the window is open and the count already stands at
\* RATE_LIMIT_MAX_PER_WINDOW or above) returns RateLimited without a profile,
\* whether or not the identifier has a cache entry, expired or not; the cache
\* stays as it was, no upstream request is issued and no credits are used.
C20_RateBeforeCache ==
    [][\A p \in Procs, param \in Params, h \in Headers :
          LET ip == getClientIp(h) IN
          (/\ Request(p, param, h)
           /\ apiKey
           /\ Numeric(Trim(param))
           /\ ip \in DOMAIN rateMap
           /\ now - rateMap[ip].windowStart <= RATE_LIMIT_WINDOW_MS
           /\ rateMap[ip].count >= RATE_LIMIT_MAX_PER_WINDOW)
          => /\ last'.resp.status = 429
             /\ FailureOf(last'.resp) = "RateLimited"
             /\ last'.resp.profile = <<>>
             /\ last'.param = param
             /\ cache' = cache
             /\ calls' = calls
             /\ pc' = pc
             /\ creditsUsed' = creditsUsed]_vars

\* A lookup was rejected by the rate limiter although its identifier has a
\* cache entry that has not expired.
C20_Witness ==
    /\ last.phase = "start"
    /\ last.resp.status = 429
    /\ last.fid \in DOMAIN cache
    /\ now <= cache[last.fid].expiresAt
    /\ rateMap[last.ip].count > RATE_LIMIT_MAX_PER_WINDOW

\* C21: while the API key is not set, every lookup, whatever its fid
\* parameter and headers, fails with ConfigurationError (HTTP 500,
\* "NEYNAR_API_KEY not set") and leaves rateMap, cache and creditsUsed as they
\* were and issues no upstream request; and in every reachable state, whatever
\* the cache and the rateMap hold, GET without the key returns that failure
\* and leaves both maps alone.
C21_Configuration ==
    /\ [](\A param \in Params, h \in Headers :
            LET r == GetBeforeFetch(FALSE, param, h, rateMap, cache, now) IN
            /\ FailureOf(r.resp) = "ConfigurationError"
            /\ ~r.fetch
            /\ r.rateMap = rateMap
            /\ r.cache = cache)
    /\ [][\A p \in Procs, param \in Params, h \in Headers :
            (Request(p, param, h) /\ ~apiKey)
            => /\ last'.resp.status = 500
               /\ FailureOf(last'.resp) = "ConfigurationError"
               /\ last'.resp.profile = <<>>
               /\ last'.param = param
               /\ UNCHANGED <<rateMap, cache, creditsUsed, calls, pc>>]_vars

\* Without the key, a lookup of a fid that is not numeric was answered with
\* the configuration error; nothing was counted or fetched.
C21_Witness ==
    /\ ~apiKey
    /\ last.phase = "start"
    /\ last.param = <<"7", "a">>
    /\ last.resp.status = 500
    /\ last.resp.error = "NEYNAR_API_KEY not set"
    /\ rateMap = EmptyMap
    /\ cache = EmptyMap
    /\ calls = 0

\* The upstream's answer is one of the failure outcomes: the fetch failed,
\* the status is not 2xx, the body is malformed, or the list is empty.
FailureOutcome(a) ==
    \/ a.kind = "throw"
    \/ a.kind = "http" /\ (a.status < 200 \/ a.status > 299)
    \/ MalformedAnswer(a)
    \/ EmptyList(a)

\* C22: a lookup issues an upstream request at most once, when it goes to
\* wait for the upstream; the step that receives the upstream's answer issues
\* none, ends the lookup and answers it, and when the answer is a failure
\* outcome the answer of the lookup is a failure without a profile.
C22_NoRetry ==
    [][/\ \A p \in Procs, param \in Params, h \in Headers :
             Request(p, param, h)
             => /\ calls' \in {calls, calls + 1}
                /\ calls' = calls + 1 <=> (pc[p] = "idle" /\ pc'[p] = "waiting")
       /\ \A p \in Procs, a \in Answers :
             GetFinish(p, a)
             => /\ calls' = calls
                /\ pc'[p] = "idle"
                /\ last'.phase = "finish"
                /\ last'.param = req[p].param
                /\ last'.answer = a
                /\ last'.resp.status # 0
                /\ FailureOutcome(a)
                   => last'.resp.status # 200 /\ last'.resp.profile = <<>>]_vars

\* The only upstream request so far failed (the fetch was rejected) and the
\* lookup was answered with the failure; no other request was issued.
C22_Witness ==
    /\ calls = 1
    /\ last.phase = "finish"
    /\ last.answer.kind = "throw"
    /\ last.resp.status = 500
    /\ \A p \in Procs : pc[p] = "idle"

\* C23 as stated: creditsUsed starts at 0 and grows by 2 with every upstream
\* call that is answered 2xx with a well-formed body, a body with an empty
\* list of records included; an upstream call that fails (no answer, or a
\* status that is not 2xx) and a lookup answered without the upstream (cache
\* hit, rejection) leave it as it was.
C23_Credits ==
    [][/\ \A p \in Procs, a \in Answers :
             GetFinish(p, a)
             => IF FirstIsRecord(a) \/ EmptyList(a)
                THEN creditsUsed' = creditsUsed + 2
                ELSE (a.kind = "throw" \/ a.status < 200 \/ a.status > 299)
                     => creditsUsed' = creditsUsed
       /\ \A p \in Procs, param \in Params, h \in Headers :
             Request(p, param, h) => creditsUsed' = creditsUsed]_vars

\* C24: every failure response carries a non-empty error text: the response
\* of every lookup answered so far, and, in every reachable state, the
\* response GET would give to any parameter and headers, with or without the
\* API key, and to any answer of the upstream.
C24_Summary ==
    /\ (last.phase # "none" /\ last.resp.status # 200) => last.resp.error # ""
    /\ \A key \in BOOLEAN, param \in Params, h \in Headers :
           LET r == GetBeforeFetch(key, param, h, rateMap, cache, now) IN
           (~r.fetch /\ r.resp.status # 200) => r.resp.error # ""
    /\ \A fid \in {<<"7">>, <<"2">>}, a \in Answers :
           LET r == GetAfterFetch(fid, a, cache, creditsUsed, now) IN
           r.resp.status # 200 => r.resp.error # ""

\* A lookup failed with UpstreamError for an upstream status 500: its
\* response has the error text beside the upstream's raw body.
C24_Witness ==
    /\ last.phase = "finish"
    /\ last.answer.status = 500
    /\ last.resp.status = 502
    /\ last.resp.error = "Neynar returned"
    /\ last.resp.about = 500
    /\ last.resp.details = "text"

\* C25: for every raw record, the empty one and those with profile or raw
\* missing or null included, normalizeUser returns a profile and does not
\* raise; the call leaves its argument as it was (the profile's raw is that
\* argument) and leaves cache, rateMap and creditsUsed alone; and the result
\* is the one any other call with the same argument gives.
C25_PureTotal ==
    /\ [](norm.result # <<>> => norm.result = <<normalizeUser(norm.u)>>)
    /\ [](~norm.threw)
    /\ [][Normalize
          => /\ norm'.u = norm.u
             /\ ~norm'.threw
             /\ Len(norm'.result) = 1
             /\ DOMAIN norm'.result[1] = ProfileFields \cup {"raw"}
             /\ norm'.result[1].raw = norm.u
             /\ UNCHANGED <<cache, rateMap, creditsUsed>>]_vars

\* normalizeUser returned for the empty record: the identifier is the empty
\* text and the other fields are null.
C25_Witness ==
    /\ norm.u = ObjItem(<<>>)
    /\ norm.result # <<>>
    /\ norm.result[1].fid = <<>>
    /\ \A f \in ProfileFields \ {"fid"} : norm.result[1][f] = Null
    /\ ~norm.threw

\* C26: a lookup that is admitted while another lookup of the same
\* identifier waits for the upstream and the cache has no entry for it does
\* not join that request: it issues an upstream request of its own and waits
\* too, so that two requests for one identifier are in flight.
C26_NoSingleFlight ==
    [][\A p \in Procs, param \in Params, h \in Headers :
          (/\ Request(p, param, h)
           /\ Admitted
           /\ Trim(param) \notin DOMAIN cache
           /\ \E q \in Procs \ {p} : pc[q] = "waiting" /\ req[q].fid = Trim(param))
          => /\ pc'[p] = "waiting"
             /\ req'[p].fid = Trim(param)
             /\ calls' = calls + 1
             /\ cache' = cache]_vars

\* Two lookups of the identifier 7 both wait for the upstream, each with a
\* request of its own, and the cache is still empty.
C26_Witness ==
    /\ \A p \in Procs : pc[p] = "waiting" /\ req[p].fid = <<"7">>
    /\ calls = 2
    /\ creditsUsed = 0
    /\ cache = EmptyMap

\* C27 as stated: a cache entry stays in the cache with its value and its
\* expiresAt in every step taken while now <= expiresAt. It is read here in
\* the claim's favour: the steps that end a lookup requested under another
\* text than the entry's key (see C4) are left aside.
C27_ReadOnlyAsStated ==
    [][\A k \in DOMAIN cache :
          (/\ now <= cache[k].expiresAt
           /\ ~\E p \in Procs : pc[p] = "waiting" /\ pc'[p] = "idle" /\ req[p].param # k)
          => k \in DOMAIN cache' /\ cache'[k] = cache[k]]_vars

\* C27 amended: a cache entry is changed only by a lookup that the upstream
\* serves with a record bearing the entry's key, which replaces it by that
\* record with expiresAt = now + CACHE_TTL_MS, also while now <= expiresAt;
\* it is removed only by an admitted lookup of its key at now > expiresAt, and
\* every such lookup removes it; all other steps leave it as it was.
C27_Lifecycle ==
    /\ [][\A k \in DOMAIN cache :
            (k \notin DOMAIN cache' \/ cache'[k] # cache[k])
            => \/ /\ \E p \in Procs, a \in Answers : GetFinish(p, a)
                  /\ last'.resp.status = 200
                  /\ last'.resp.profile[1].fid = k
                  /\ k \in DOMAIN cache'
                  /\ cache'[k] = [value |-> last'.resp.profile[1].raw,
                                  expiresAt |-> now + CACHE_TTL_MS]
               \/ /\ k \notin DOMAIN cache'
                  /\ now > cache[k].expiresAt
                  /\ \E p \in Procs, param \in Params, h \in Headers :
                        Request(p, param, h) /\ Trim(param) = k /\ Admitted]_vars
    /\ [][\A p \in Procs, param \in Params, h \in Headers :
            (/\ Trim(param) \in DOMAIN cache
             /\ now > cache[Trim(param)].expiresAt
             /\ Request(p, param, h)
             /\ Admitted)
            => Trim(param) \notin DOMAIN cache']_vars

\* Two lookups of 7 were served by the upstream within CACHE_TTL_MS: the
\* second wrote the entry of 7 over the one the first had written, which had
\* not expired.
C27_Witness ==
    /\ last.phase = "finish"
    /\ last.param = <<"7">>
    /\ last.resp.status = 200
    /\ creditsUsed = 4
    /\ calls = 2
    /\ 0 < now /\ now <= CACHE_TTL_MS
    /\ DOMAIN cache = {<<"7">>}
    /\ cache[<<"7">>].expiresAt = now + CACHE_TTL_MS
    /\ \A p \in Procs : pc[p] = "idle"

\* C28: every write of a cache entry is one step that stores the record of
\* the lookup being answered together with expiresAt = now + CACHE_TTL_MS,
\* whatever the entry held; so every entry is at every moment a complete
\* {value, expiresAt} pair whose record bears the entry's key, and when no
\* lookup is in flight and the last one answered was served by the upstream,
\* the entry of its identifier holds that lookup's record and expiresAt.
C28_LastWriteWins ==
    /\ [](\A k \in DOMAIN cache :
            /\ DOMAIN cache[k] = {"value", "expiresAt"}
            /\ cache[k].value.t = "obj"
            /\ normalizeUser(cache[k].value).fid = k
            /\ cache[k].expiresAt >= CACHE_TTL_MS
            /\ cache[k].expiresAt <= now + CACHE_TTL_MS)
    /\ []((/\ \A p \in Procs : pc[p] = "idle"
           /\ last.phase = "finish"
           /\ last.resp.status = 200)
          => LET k == last.resp.profile[1].fid IN
             /\ k \in DOMAIN cache
             /\ cache[k] = [value |-> last.resp.profile[1].raw, expiresAt |-> last.exp])
    /\ [][\A p \in Procs, a \in Answers :
            (/\ pc[p] = "waiting"
             /\ last'.answer = a
             /\ GetFinish(p, a)
             /\ last'.resp.status = 200)
            => LET k == last'.resp.profile[1].fid IN
               /\ k \in DOMAIN cache'
               /\ cache'[k] = [value |-> UsersOf(a.body)[1],
                               expiresAt |-> now + CACHE_TTL_MS]]_vars

\* Two lookups of 7 missed the cache together and were served one after the
\* other; the entry holds the record and the expiresAt of the one answered
\* last, the record of the id 7.
C28_Witness ==
    /\ \A p \in Procs : pc[p] = "idle"
    /\ last.phase = "finish"
    /\ last.param = <<"7">>
    /\ last.resp.status = 200
    /\ last.resp.profile[1].raw = AliceById
    /\ creditsUsed = 4
    /\ calls = 2
    /\ 0 < now /\ now <= CACHE_TTL_MS
    /\ cache[<<"7">>] = [value |-> AliceById, expiresAt |-> now + CACHE_TTL_MS]

\* C29 as stated: every lookup that waits for the upstream is eventually
\* answered, whether or not the upstream responds.
C29_Terminates ==
    \A p \in Procs : (pc[p] = "waiting") ~> (pc[p] = "idle")

\* The lookup being answered wrote a warning to the console.
Warned == \E i \in DOMAIN last'.console : last'.console[i].level = "warn"

\* The part of C30 about the key: a lookup served by the upstream stores the
\* first record under the identifier that record bears, and an entry under
\* the requested identifier, when that is another one, stays as it was.
C30_KeyedByReturned ==
    [][\A p \in Procs, a \in Answers :
          (/\ pc[p] = "waiting"
           /\ last'.answer = a
           /\ GetFinish(p, a)
           /\ last'.resp.status = 200)
          => LET returned == last'.resp.profile[1].fid
                 requested == req[p].fid
             IN  /\ returned \in DOMAIN cache'
                 /\ cache'[returned].value = UsersOf(a.body)[1]
                 /\ returned # requested
                    => /\ requested \in DOMAIN cache' <=> requested \in DOMAIN cache
                       /\ requested \in DOMAIN cache
                          => cache'[requested] = cache[requested]]_vars

\* C30 as stated: a lookup served by the upstream stores the record under
\* the identifier the record bears, not under the requested one, and writes
\* a warning whenever the two differ.
C30_KeyedAndWarned ==
    [][\A p \in Procs, a \in Answers :
          (/\ pc[p] = "waiting"
           /\ last'.answer = a
           /\ GetFinish(p, a)
           /\ last'.resp.status = 200)
          => LET returned == last'.resp.profile[1].fid
                 requested == req[p].fid
             IN  /\ returned \in DOMAIN cache'
                 /\ cache'[returned].value = UsersOf(a.body)[1]
                 /\ returned # requested
                    => /\ requested \in DOMAIN cache' <=> requested \in DOMAIN cache
                       /\ Warned]_vars

\* C31: two runs of the route that start with different creditsUsed and
\* receive the same lookups at the same times and the same answers of the
\* upstream give the same responses and have, after every step, the same
\* cache and the same rateMap; both await the upstream at the same moments,
\* and their counters stay as far apart as they started.
C31_Advisory ==
    /\ twin.resp = last.resp
    /\ twin.cache = cache
    /\ twin.rateMap = rateMap
    /\ twin.fetch <=> pc[1] = "waiting"
    /\ twin.creditsUsed - creditsUsed \in TwinCredits

\* Both runs served two lookups from the upstream and rejected a third at
\* the rate limit, one run with creditsUsed 4 and the other with 8.
C31_Witness ==
    /\ last.phase = "start"
    /\ last.resp.status = 429
    /\ twin.resp.status = 429
    /\ creditsUsed = 4
    /\ twin.creditsUsed = 8
    /\ calls = 2
    /\ cache # EmptyMap
    /\ twin.cache = cache

\* The number of lookups admitted at a time in [t, t + RATE_LIMIT_WINDOW_MS]
AdmittedWithin(t) ==
    Cardinality({i \in DOMAIN admits :
                    t <= admits[i] /\ admits[i] <= t + RATE_LIMIT_WINDOW_MS})

\* C32: in every interval of length RATE_LIMIT_WINDOW_MS at most
\* 2 * RATE_LIMIT_MAX_PER_WINDOW lookups of the client are admitted, and
\* whenever a client's window is restarted, the new windowStart is more than
\* RATE_LIMIT_WINDOW_MS after the one it replaces.
C32_Burst ==
    /\ [](\A t \in 0..MaxLongTime :
            AdmittedWithin(t) <= 2 * RATE_LIMIT_MAX_PER_WINDOW)
    /\ [][\A ip \in DOMAIN rateMap :
            rateMap'[ip].windowStart # rateMap[ip].windowStart
            => rateMap'[ip].windowStart - rateMap[ip].windowStart > RATE_LIMIT_WINDOW_MS]_vars

\* The burst at a window boundary: over three windows the client had more
\* than 2 * RATE_LIMIT_MAX_PER_WINDOW lookups admitted, and more than
\* RATE_LIMIT_MAX_PER_WINDOW of them fall into one interval of length
\* RATE_LIMIT_WINDOW_MS.
C32_Witness ==
    /\ Len(admits) > 2 * RATE_LIMIT_MAX_PER_WINDOW
    /\ \E t \in 0..MaxLongTime : AdmittedWithin(t) > RATE_LIMIT_MAX_PER_WINDOW

\* The client keys of the two clients, and one that never sends a request
ClientKeys == {"a", "b", "c"}

\* C33: in every reachable state a call of isRateLimited for a key creates
\* or changes that key's entry only, and every lookup leaves the entries of
\* the other keys as they were; every entry has count >= 1 and no entry is
\* ever removed; and the client a is admitted and rejected exactly as in a
\* run that receives its lookups alone, its entry being the same in both.
C33_PerClient ==
    /\ [](\A ip \in ClientKeys :
            LET r == isRateLimited(rateMap, ip, now) IN
            /\ DOMAIN r.rateMap = (DOMAIN rateMap) \cup {ip}
            /\ \A other \in (DOMAIN rateMap) \ {ip} : r.rateMap[other] = rateMap[other])
    /\ [](\A ip \in DOMAIN rateMap : rateMap[ip].count >= 1)
    /\ [](DOMAIN twin.rateMap = (DOMAIN rateMap) \ {"b"}
          /\ \A ip \in DOMAIN twin.rateMap : twin.rateMap[ip] = rateMap[ip])
    /\ [][DOMAIN rateMap \subseteq DOMAIN rateMap']_vars
    /\ [][\A p \in Procs, h \in Headers :
            LET ip == getClientIp(h) IN
            Request(p, <<"7">>, h)
            => /\ DOMAIN rateMap' \subseteq (DOMAIN rateMap) \cup {ip}
               /\ \A other \in (DOMAIN rateMap) \ {ip} : rateMap'[other] = rateMap[other]
               /\ (ip = "a" /\ apiKey)
                  => (Rejected <=> isRateLimited(twin.rateMap, ip, now).limited)]_vars

\* The client a was rejected in its window, after which the client b, whose
\* window started later, was admitted and served; a's entry is as in the run
\* without b.
C33_Witness ==
    /\ {"a", "b"} \subseteq DOMAIN rateMap
    /\ "a" \in DOMAIN twin.rateMap
    /\ last.ip = "b"
    /\ last.resp.status = 200
    /\ rateMap["a"].count = RATE_LIMIT_MAX_PER_WINDOW + 1
    /\ rateMap["b"].count = 1
    /\ rateMap["b"].windowStart > rateMap["a"].windowStart
    /\ now - rateMap["a"].windowStart <= RATE_LIMIT_WINDOW_MS
    /\ twin.resp.status = 429
    /\ twin.rateMap["a"] = rateMap["a"]

\* C34: searchFid is started by the button or the Enter key only while
\* loading is false; loading is true exactly while the request is in flight,
\* so it is set before the request and reset on every path out of the
\* search (a profile, an HTTP error, a body that is not JSON, a fetch that
\* fails); a request is sent only for a query that is all digits after
\* trimming, and a search of another query ends at once with loading false;
\* and profile and errorMsg are never both set.
C34_Search ==
    /\ [](page.loading <=> page.pc = "fetching")
    /\ [](~(page.profile # <<>> /\ page.errorMsg # <<>>))
    /\ [][\A works \in BOOLEAN :
            (ClickSearch(works) \/ PressEnter(works)) => ~page.loading]_vars
    /\ [][(page.pc = "idle" /\ page'.pc = "fetching")
          => /\ Numeric(Trim(page.query))
             /\ page'.fid = Trim(page.query)
             /\ page'.loading
             /\ page'.profile = <<>> /\ page'.errorMsg = <<>>]_vars
    /\ [][(ClickSearch(TRUE) /\ ~Numeric(Trim(page.query)))
          => /\ page'.pc = "idle"
             /\ ~page'.loading
             /\ page'.profile = <<>> /\ page'.errorMsg # <<>>]_vars
    /\ [][(page.pc = "fetching" /\ page'.pc = "idle")
          => /\ ~page'.loading
             /\ page'.profile = <<>> \/ page'.errorMsg = <<>>]_vars

\* A search of " 7 " sent the fid 7; the fetch failed or its body was not
\* JSON, and the search ended with the network error message and no profile;
\* loading is false again.
C34_Witness ==
    /\ page.pc = "idle"
    /\ ~page.loading
    /\ page.query = <<" ", "7", " ">>
    /\ page.fid = <<"7">>
    /\ page.errorMsg = <<"Network error. Please try again.">>
    /\ page.profile = <<>>

\* C35 as stated: a toast leaves the screen, other than by a newer toast
\* taking its place, only once TOAST_MS have passed since the showToast call
\* that showed it: the timer of an earlier toast never clears a later one.
C35_ToastStays ==
    [][(page.toast # <<>> /\ page'.toast = <<>>)
       => now >= page.toast[1].id + TOAST_MS]_vars

====
